---------------------------- MODULE Spec2Model ----------------------------
(***************************************************************************)
(* ratlog: cold tail loader, bounded line reader, live poller and the      *)
(* retained buffer, modelled from src/src/logs.rs and src/src/app.rs.      *)
(*                                                                         *)
(* Files and Rust Strings are sequences of bytes (0..255); a String is     *)
(* its UTF-8 encoding, so len() is Len and slicing is by byte index.       *)
(* The limits of src/src/constants.rs are scaled down so that every        *)
(* boundary (eviction, truncation, capped read, strategy switch) is        *)
(* crossed by files of a few bytes.                                        *)
(***************************************************************************)
EXTENDS Integers, Sequences, FiniteSets, TLC

\* ---- program constants (scaled) ----------------------------------------
MAX_LINES == 2
MAX_LINE_LEN == 2
POLL_READ_CAP == 2
TAIL_READ_SIZE == 4
\* capacity of std::io::BufReader (8192 in std), scaled
BUF_CAP == 2
\* size of the scan array of offset_after_n_newlines (65536), scaled
SCAN_CHUNK == 2

\* ---- bounds of the model ------------------------------------------------
MaxInitLen == 5
MaxAppend == 1
MaxFaults == 1
\* the longest buffer and the largest cap apply_filter is called with
MaxFilterLines == 3
MaxCap == 2
\* the longest file and the longest filter text of the key-handling runs
MaxUiFile == 1
MaxFilterLen == 2
\* the longest file loaded and the bytes appended in the runs with truncation
MaxRotFile == 1
MaxRotAppend == 2
\* the longest stream handed to the streaming strategy on its own
MaxStreamLen == 6
\* the longest file the poller is run on by itself, at the start and in all
MaxChunkInit == 3
MaxChunkLen == 5
\* the most bytes a writer appends while a large file is being loaded
MaxTailAppend == 1

\* ---- bytes --------------------------------------------------------------
NL == 10
CR == 13
\* the bytes files are made of: newline, 'a', and the two bytes of U+00E9
ByteAlphabet == {10, 97, 195, 169}
\* U+FFFD REPLACEMENT CHARACTER in UTF-8
REPLACEMENT == <<239, 191, 189>>
\* the marker "..." appended by parse_tail_lines
MARKER == <<46, 46, 46>>

Min(a, b) == IF a < b THEN a ELSE b
Max(a, b) == IF a > b THEN a ELSE b

\* s[from+1 .. to] in 0-based half-open byte positions [from, to)
Slice(s, from, to) == SubSeq(s, from + 1, to)

SeqsUpTo(S, n) == UNION {[1..k -> S] : k \in 0..n}

\* ---- UTF-8 (std::str::from_utf8, String::from_utf8_lossy) ----------------
Utf8Width(b) ==
    IF b < 128 THEN 1
    ELSE IF b \in 194..223 THEN 2
    ELSE IF b \in 224..239 THEN 3
    ELSE IF b \in 240..244 THEN 4
    ELSE 0

SecondByteOK(lead, c) ==
    IF lead = 224 THEN c \in 160..191
    ELSE IF lead = 237 THEN c \in 128..159
    ELSE IF lead = 240 THEN c \in 144..191
    ELSE IF lead = 244 THEN c \in 128..143
    ELSE c \in 128..191

\* the character starting at 1-based index i of s: ok = well formed, n = its
\* bytes (for an ill-formed one: the maximal ill-formed subpart, at least 1)
CharAt(s, i) ==
    LET b == s[i]
        w == Utf8Width(b)
        c1 == i + 1 <= Len(s) /\ SecondByteOK(b, s[i + 1])
        c2 == i + 2 <= Len(s) /\ s[i + 2] \in 128..191
        c3 == i + 3 <= Len(s) /\ s[i + 3] \in 128..191
    IN  IF w = 0 THEN [ok |-> FALSE, n |-> 1]
        ELSE IF w = 1 THEN [ok |-> TRUE, n |-> 1]
        ELSE IF ~c1 THEN [ok |-> FALSE, n |-> 1]
        ELSE IF w = 2 THEN [ok |-> TRUE, n |-> 2]
        ELSE IF ~c2 THEN [ok |-> FALSE, n |-> 2]
        ELSE IF w = 3 THEN [ok |-> TRUE, n |-> 3]
        ELSE IF ~c3 THEN [ok |-> FALSE, n |-> 3]
        ELSE [ok |-> TRUE, n |-> 4]

RECURSIVE Utf8From(_, _)
Utf8From(s, i) ==
    IF i > Len(s) THEN TRUE
    ELSE LET c == CharAt(s, i) IN c.ok /\ Utf8From(s, i + c.n)

\* String::from_utf8(buf).is_ok()
IsUtf8(s) == Utf8From(s, 1)

RECURSIVE LossyFrom(_, _)
LossyFrom(s, i) ==
    IF i > Len(s) THEN <<>>
    ELSE LET c == CharAt(s, i)
         IN  (IF c.ok THEN SubSeq(s, i, i + c.n - 1) ELSE REPLACEMENT)
                 \o LossyFrom(s, i + c.n)

\* String::from_utf8_lossy(bytes)
FromUtf8Lossy(s) == LossyFrom(s, 1)

\* str::is_char_boundary(idx), idx a 0-based byte position of a String
IsCharBoundary(s, idx) ==
    \/ idx = 0
    \/ idx = Len(s)
    \/ idx < Len(s) /\ s[idx + 1] \notin 128..191

RECURSIVE TrimEndNewlines(_)
\* str::trim_end_matches('\n')
TrimEndNewlines(s) ==
    IF Len(s) > 0 /\ s[Len(s)] = NL THEN TrimEndNewlines(SubSeq(s, 1, Len(s) - 1))
    ELSE s

\* 0-based position of the first newline at or after pos, or Len(s) if none
RECURSIVE FindNewline(_, _)
FindNewline(s, pos) ==
    IF pos >= Len(s) THEN Len(s)
    ELSE IF s[pos + 1] = NL THEN pos
    ELSE FindNewline(s, pos + 1)

\* slice::split(|b| b == '\n') and str::split('\n'): the pieces between
\* newlines, always at least one piece, the last one after the last newline
RECURSIVE SplitNewline(_)
SplitNewline(s) ==
    LET p == FindNewline(s, 0)
    IN  IF p = Len(s) THEN <<s>>
        ELSE <<Slice(s, 0, p)>> \o SplitNewline(Slice(s, p + 1, Len(s)))

LastN(seq, n) == IF Len(seq) > n THEN SubSeq(seq, Len(seq) - n + 1, Len(seq)) ELSE seq


\* ---- BoundedLineReader (logs.rs read_line_bounded) -----------------------
\* BufReader::fill_buf at stream position pos: the rest of the current
\* block of BUF_CAP bytes (empty only at end of stream)
FillBuf(stream, pos) ==
    Slice(stream, pos, Min(((pos \div BUF_CAP) + 1) * BUF_CAP, Len(stream)))

\* the for loop of lines 64-73: index of the newline found, or -1
RECURSIVE ScanChunk(_, _, _)
ScanChunk(chunk, i, total) ==
    IF i >= Len(chunk) THEN -1
    ELSE IF chunk[i + 1] = NL THEN i
    ELSE IF total + i >= MAX_LINE_LEN THEN -1
    ELSE ScanChunk(chunk, i + 1, total)

\* the inner loop leaving the newline it finds in the stream
RECURSIVE SkipUntilNewline_leaves_newline(_, _)
SkipUntilNewline_leaves_newline(stream, pos) ==
    LET c == FillBuf(stream, pos)
        p == FindNewline(c, 0)
    IN  IF Len(c) = 0 THEN pos
        ELSE IF p < Len(c) THEN pos + p
        ELSE SkipUntilNewline_leaves_newline(stream, pos + Len(c))

\* the inner loop of lines 93-109: position after the discarded rest
RECURSIVE SkipUntilNewline(_, _)
SkipUntilNewline(stream, pos) ==
    LET c == FillBuf(stream, pos)
        p == FindNewline(c, 0)
    IN  IF Len(c) = 0 THEN pos
        ELSE IF p < Len(c) THEN pos + p + 1
        ELSE SkipUntilNewline(stream, pos + Len(c))

\* the outer loop keeping one byte less than the cap of a line that reaches it
RECURSIVE ReadLineLoop_takes_one_less(_, _, _, _)
ReadLineLoop_takes_one_less(stream, pos, buf, total) ==
    LET chunk == FillBuf(stream, pos)
        found == ScanChunk(chunk, 0, total)
    IN  IF Len(chunk) = 0 THEN [buf |-> buf, pos |-> pos]
        ELSE IF found >= 0
            THEN [buf |-> buf \o SubSeq(chunk, 1, found + 1), pos |-> pos + found + 1]
        ELSE IF total + Len(chunk) >= MAX_LINE_LEN
            THEN LET take == Min(MAX_LINE_LEN - total, Len(chunk)) - 1
                 IN  [buf |-> buf \o SubSeq(chunk, 1, take),
                      pos |-> SkipUntilNewline(stream, pos + take)]
        ELSE ReadLineLoop_takes_one_less(stream, pos + Len(chunk), buf \o chunk,
                                         total + Len(chunk))

\* the outer loop of lines 58-114: the bytes accumulated and the position
RECURSIVE ReadLineLoop(_, _, _, _)
ReadLineLoop(stream, pos, buf, total) ==
    LET chunk == FillBuf(stream, pos)
        found == ScanChunk(chunk, 0, total)
    IN  IF Len(chunk) = 0 THEN [buf |-> buf, pos |-> pos]
        ELSE IF found >= 0
            THEN [buf |-> buf \o SubSeq(chunk, 1, found + 1), pos |-> pos + found + 1]
        ELSE IF total + Len(chunk) >= MAX_LINE_LEN
            THEN LET take == Min(MAX_LINE_LEN - total, Len(chunk))
                 IN  [buf |-> buf \o SubSeq(chunk, 1, take),
                      pos |-> SkipUntilNewline(stream, pos + take)]
        ELSE ReadLineLoop(stream, pos + Len(chunk), buf \o chunk, total + Len(chunk))

\* read_line_bounded without trim_end_matches: the newline stays in the line
read_line_bounded_keeps_newline(stream, pos) ==
    LET r == ReadLineLoop(stream, pos, <<>>, 0)
    IN  IF Len(r.buf) = 0
        THEN [some |-> FALSE, line |-> <<>>, pos |-> r.pos]
        ELSE [some |-> TRUE, line |-> FromUtf8Lossy(r.buf), pos |-> r.pos]

\* read_line_bounded testing for emptiness after the trim: a blank line is
\* taken for the end of the stream
read_line_bounded_none_on_blank(stream, pos) ==
    LET r == ReadLineLoop(stream, pos, <<>>, 0)
        s == TrimEndNewlines(FromUtf8Lossy(r.buf))
    IN  IF Len(s) = 0
        THEN [some |-> FALSE, line |-> <<>>, pos |-> r.pos]
        ELSE [some |-> TRUE, line |-> s, pos |-> r.pos]

\* read_line_bounded on a reader at position pos: some = FALSE is Ok(None)
read_line_bounded(stream, pos) ==
    LET r == ReadLineLoop(stream, pos, <<>>, 0)
    IN  IF Len(r.buf) = 0
        THEN [some |-> FALSE, line |-> <<>>, pos |-> r.pos]
        ELSE [some |-> TRUE, line |-> TrimEndNewlines(FromUtf8Lossy(r.buf)), pos |-> r.pos]

\* ---- ColdTailLoader (logs.rs) ---------------------------------------------
\* the scan of one chunk (lines 138-145): position after the n-th newline,
\* or -1 with the count of newlines seen so far
RECURSIVE ScanNewlines(_, _, _, _)
ScanNewlines(chunk, i, seen, n) ==
    IF i >= Len(chunk) THEN [ret |-> -1, seen |-> seen]
    ELSE IF chunk[i + 1] = NL
        THEN IF seen + 1 = n THEN [ret |-> i + 1, seen |-> seen + 1]
             ELSE ScanNewlines(chunk, i + 1, seen + 1, n)
    ELSE ScanNewlines(chunk, i + 1, seen, n)

RECURSIVE OffsetLoop(_, _, _, _)
OffsetLoop(stream, offset, seen, n) ==
    LET chunk == Slice(stream, offset, Min(offset + SCAN_CHUNK, Len(stream)))
        r == ScanNewlines(chunk, 0, seen, n)
    IN  IF Len(chunk) = 0 THEN offset
        ELSE IF r.ret >= 0 THEN offset + r.ret
        ELSE OffsetLoop(stream, offset + Len(chunk), r.seen, n)

\* the scan stopping one newline later
offset_after_n_newlines_one_more(stream, n) ==
    IF n = 0 THEN 0 ELSE OffsetLoop(stream, 0, 0, n + 1)

offset_after_n_newlines(stream, n) ==
    IF n = 0 THEN 0 ELSE OffsetLoop(stream, 0, 0, n)

\* one fragment of parse_tail_lines (lines 157-162); slicing a String off a
\* character boundary panics
TailFragment(line) ==
    LET s == FromUtf8Lossy(line)
    IN  IF Len(s) > MAX_LINE_LEN
        THEN IF IsCharBoundary(s, MAX_LINE_LEN)
             THEN [panic |-> FALSE, text |-> SubSeq(s, 1, MAX_LINE_LEN) \o MARKER]
             ELSE [panic |-> TRUE, text |-> <<>>]
        ELSE [panic |-> FALSE, text |-> s]

RECURSIVE TailFragments(_, _)
TailFragments(pieces, i) ==
    IF i > Len(pieces) THEN [panic |-> FALSE, lines |-> <<>>]
    ELSE LET f == TailFragment(pieces[i])
             rest == TailFragments(pieces, i + 1)
         IN  IF f.panic \/ rest.panic THEN [panic |-> TRUE, lines |-> <<>>]
             ELSE [panic |-> FALSE,
                   lines |-> (IF Len(f.text) > 0 THEN <<f.text>> ELSE <<>>) \o rest.lines]

parse_tail_lines(content) ==
    LET first_nl == FindNewline(content, 0)
        rest == IF first_nl < Len(content)
                THEN Slice(content, first_nl + 1, Len(content))
                ELSE content
        r == TailFragments(SplitNewline(rest), 1)
    IN  [panic |-> r.panic, lines |-> LastN(r.lines, MAX_LINES)]

\* the while loop popping when the deque has reached MAX_LINES (>= for >)
RECURSIVE StreamLoop_pops_early(_, _, _, _)
StreamLoop_pops_early(stream, pos, deque, total_lines) ==
    LET r == read_line_bounded(stream, pos)
        pushed == Append(deque, r.line)
    IN  IF ~r.some THEN [kept |-> deque, total_lines |-> total_lines]
        ELSE StreamLoop_pops_early(stream, r.pos,
                        IF Len(pushed) >= MAX_LINES THEN Tail(pushed) ELSE pushed,
                        total_lines + 1)

\* the while loop of load_logs (lines 207-213)
RECURSIVE StreamLoop(_, _, _, _)
StreamLoop(stream, pos, deque, total_lines) ==
    LET r == read_line_bounded(stream, pos)
        pushed == Append(deque, r.line)
    IN  IF ~r.some THEN [kept |-> deque, total_lines |-> total_lines]
        ELSE StreamLoop(stream, r.pos,
                        IF Len(pushed) > MAX_LINES THEN Tail(pushed) ELSE pushed,
                        total_lines + 1)

\* sample_logs returning no line
sample_logs_empty == <<>>

\* the built-in sample lines (15 lines in the source, scaled to MAX_LINES)
sample_logs == << <<97>>, <<97, 97>> >>

\* What the file system does to one cold load: kind "ok"; "not_found" (the
\* path does not exist); "io_error" (metadata, open or seek fails);
\* "read_error" (a read fails after k bytes of the requested range).
LoadIo == {[kind |-> "ok", k |-> 0], [kind |-> "not_found", k |-> 0],
           [kind |-> "io_error", k |-> 0]}
          \cup {[kind |-> "read_error", k |-> k] : k \in 0..TAIL_READ_SIZE}

\* path.display() of the path given on the command line
PATH_DISPLAY == "path"

\* the message of the io::Error load_logs returns: the one it formats itself
\* (lines 180-183), or the operating system's for an error passed on by `?`
ErrorMessage(status) ==
    IF status = "not_found" THEN <<"Log file not found: ", PATH_DISPLAY>>
    ELSE IF status = "io_error" THEN <<"os error">>
    ELSE <<>>

LoadResult(status, lines, path, offset, start) ==
    [status |-> status, message |-> ErrorMessage(status), lines |-> lines,
     path |-> path, file_offset |-> offset, file_line_start |-> start]

\* the streaming strategy of load_logs (lines 203-223), which load_logs takes
\* for a file of at most TAIL_READ_SIZE bytes
StreamingLoad(stream) ==
    LET r == StreamLoop(stream, 0, <<>>, 0)
        file_line_start == Max(r.total_lines - Len(r.kept), 0) + 1
        file_offset == IF file_line_start <= 1 THEN 0
                       ELSE offset_after_n_newlines(stream, file_line_start - 1)
    IN  LoadResult("ok", r.kept, TRUE, file_offset, file_line_start)

\* the large-file read without the seek: the first TAIL_READ_SIZE bytes
TailWindow_from_start(stream) ==
    Slice(stream, 0, Min(TAIL_READ_SIZE, Len(stream)))

\* the range seek and take select in the large-file strategy (lines 190-194)
TailWindow(stream) ==
    LET start == Max(Len(stream) - TAIL_READ_SIZE, 0)
    IN  Slice(stream, start, Min(start + TAIL_READ_SIZE, Len(stream)))

\* load_logs without the path.exists() check of lines 179-184: a missing
\* file fails at fs::metadata with the operating system's error
load_logs_without_exists_check(has_path, stream, io) ==
    IF ~has_path THEN LoadResult("ok", sample_logs, FALSE, 0, 1)
    ELSE IF io.kind \in {"not_found", "io_error"}
        THEN LoadResult("io_error", <<>>, FALSE, 0, 0)
    ELSE IF Len(stream) > TAIL_READ_SIZE
        THEN LET file_size == Len(stream)
                 window == TailWindow(stream)
                 buf == IF io.kind = "read_error"
                        THEN SubSeq(window, 1, Min(io.k, Len(window)))
                        ELSE window
                 kept == parse_tail_lines(buf)
             IN  IF kept.panic THEN LoadResult("panic", <<>>, FALSE, 0, 0)
                 ELSE LoadResult("ok", kept.lines, TRUE, file_size, 1)
    ELSE IF io.kind = "read_error" THEN LoadResult("io_error", <<>>, FALSE, 0, 0)
    ELSE StreamingLoad(stream)

\* load_logs(file_arg): has_path = file_arg.is_some(), stream = the file
load_logs(has_path, stream, io) ==
    IF ~has_path THEN LoadResult("ok", sample_logs, FALSE, 0, 1)
    ELSE IF io.kind = "not_found" THEN LoadResult("not_found", <<>>, FALSE, 0, 0)
    ELSE IF io.kind = "io_error" THEN LoadResult("io_error", <<>>, FALSE, 0, 0)
    ELSE IF Len(stream) > TAIL_READ_SIZE
        THEN LET file_size == Len(stream)
                 window == TailWindow(stream)
                 buf == IF io.kind = "read_error"
                        THEN SubSeq(window, 1, Min(io.k, Len(window)))
                        ELSE window
                 kept == parse_tail_lines(buf)
             IN  IF kept.panic THEN LoadResult("panic", <<>>, FALSE, 0, 0)
                 ELSE LoadResult("ok", kept.lines, TRUE, file_size, 1)
    ELSE IF io.kind = "read_error" THEN LoadResult("io_error", <<>>, FALSE, 0, 0)
    ELSE StreamingLoad(stream)

\* ---- parse_log_content (logs.rs) ------------------------------------------
StripCR(l) == IF Len(l) > 0 /\ l[Len(l)] = CR THEN SubSeq(l, 1, Len(l) - 1) ELSE l

\* str::lines(): pieces between newlines, no final empty piece, a trailing
\* carriage return removed from each
StrLines(content) ==
    LET pieces == SplitNewline(content)
        n == Len(pieces)
        m == IF Len(pieces[n]) = 0 THEN n - 1 ELSE n
    IN  [i \in 1..m |-> StripCR(pieces[i])]

RECURSIVE SumLenPlusOne(_, _)
SumLenPlusOne(lines, k) ==
    IF k = 0 THEN 0 ELSE Len(lines[k]) + 1 + SumLenPlusOne(lines, k - 1)

parse_log_content(content) ==
    LET lines == StrLines(content)
        total == Len(lines)
        skip == Max(total - MAX_LINES, 0)
    IN  [lines |-> SubSeq(lines, skip + 1, total),
         file_offset |-> SumLenPlusOne(lines, skip),
         file_line_start |-> skip + 1]


\* ---- FilterView (logs.rs apply_filter) ------------------------------------
\* char::is_whitespace on the ASCII range (str::trim)
IsWhitespace(b) == b \in {9, 10, 11, 12, 13, 32}

RECURSIVE TrimStart(_)
TrimStart(s) ==
    IF Len(s) > 0 /\ IsWhitespace(s[1]) THEN TrimStart(Tail(s)) ELSE s

RECURSIVE TrimEnd(_)
TrimEnd(s) ==
    IF Len(s) > 0 /\ IsWhitespace(s[Len(s)]) THEN TrimEnd(SubSeq(s, 1, Len(s) - 1)) ELSE s

\* str::trim
Trim(s) == TrimEnd(TrimStart(s))

\* str::to_lowercase on ASCII text: 'A'..'Z' become 'a'..'z'
ToLowercase(s) == [i \in 1..Len(s) |-> IF s[i] \in 65..90 THEN s[i] + 32 ELSE s[i]]

\* str::contains(&q)
Contains(s, q) ==
    \E i \in 0..(Len(s) - Len(q)) : SubSeq(s, i + 1, i + Len(q)) = q

\* the query without the trim
QueryOf_untrimmed(filter) == ToLowercase(filter)

\* line 33: filter.trim().to_lowercase()
QueryOf(filter) == ToLowercase(Trim(filter))

\* the test of line 44 without lowering the line
LineMatches_case_sensitive(line, q) == Contains(line, q)

\* line 44: line.to_lowercase().contains(&q)
LineMatches(line, q) == Contains(ToLowercase(line), q)

\* enumerate() placed after filter(): positions in the result, not in lines
RECURSIVE WithIdx_renumbered(_, _, _)
WithIdx_renumbered(lines, q, i) ==
    IF i >= Len(lines) THEN <<>>
    ELSE LET rest == WithIdx_renumbered(lines, q, i + 1)
             here == Len(q) = 0 \/ LineMatches(lines[i + 1], q)
         IN  IF here
             THEN <<<<0, lines[i + 1]>>>> \o [k \in 1..Len(rest) |-> <<rest[k][1] + 1, rest[k][2]>>]
             ELSE rest

\* lines 34-47: the pairs (index, line) of all lines, or of the matching
\* ones, from 0-based index i on
RECURSIVE WithIdx(_, _, _)
WithIdx(lines, q, i) ==
    IF i >= Len(lines) THEN <<>>
    ELSE IF Len(q) = 0 \/ LineMatches(lines[i + 1], q)
        THEN <<<<i, lines[i + 1]>>>> \o WithIdx(lines, q, i + 1)
    ELSE WithIdx(lines, q, i + 1)

\* the cap keeping the first max_lines pairs
CapLast_keeps_first(with_idx, max_lines) ==
    IF Len(with_idx) <= max_lines THEN with_idx
    ELSE SubSeq(with_idx, 1, max_lines)

\* lines 48-52
CapLast(with_idx, max_lines) ==
    IF Len(with_idx) <= max_lines THEN with_idx
    ELSE SubSeq(with_idx, Len(with_idx) - max_lines + 1, Len(with_idx))

apply_filter(lines, filter, max_lines) ==
    CapLast(WithIdx(lines, QueryOf(filter), 0), max_lines)

\* ---- LivePoller and RetainedBuffer (app.rs) -------------------------------
\* Evict with the cap compared one too high: MAX_LINES + 1 entries stay
Evict_keeps_one_more(lines, start) ==
    IF Len(lines) > MAX_LINES + 1
    THEN LET drop == Len(lines) - (MAX_LINES + 1)
         IN  [all_lines |-> SubSeq(lines, drop + 1, Len(lines)),
              file_line_start |-> start + drop]
    ELSE [all_lines |-> lines, file_line_start |-> start]

\* the cap with file_line_start left where it was
Evict_keeps_start(lines, start) ==
    IF Len(lines) > MAX_LINES
    THEN LET drop == Len(lines) - MAX_LINES
         IN  [all_lines |-> SubSeq(lines, drop + 1, Len(lines)),
              file_line_start |-> start]
    ELSE [all_lines |-> lines, file_line_start |-> start]

\* the cap of App::new (lines 55-59) and of poll_live_file (lines 155-159)
Evict(lines, start) ==
    IF Len(lines) > MAX_LINES
    THEN LET drop == Len(lines) - MAX_LINES
         IN  [all_lines |-> SubSeq(lines, drop + 1, Len(lines)),
              file_line_start |-> start + drop]
    ELSE [all_lines |-> lines, file_line_start |-> start]

NonEmptyOnly(lines) == SelectSeq(lines, LAMBDA l : Len(l) > 0)

\* the split with every fragment pushed and none carried
Reassemble_carries_nothing(full) ==
    [pushed |-> NonEmptyOnly(SplitNewline(full)), partial |-> <<>>]

\* the lines pushed and the fragment kept for the text full (lines 139-153)
Reassemble(full) ==
    LET lines == SplitNewline(full)
    IN  IF Len(full) > 0 /\ full[Len(full)] = NL
        THEN [pushed |-> NonEmptyOnly(lines), partial |-> <<>>]
        ELSE [pushed |-> SubSeq(lines, 1, Len(lines) - 1),
              partial |-> lines[Len(lines)]]

\* What the file system does to one poll: "ok", or the open, the seek or
\* the read fails.
PollIo == {"ok", "open_error", "seek_error", "read_error"}

Core(lines, start, offset, partial) ==
    [all_lines |-> lines, file_line_start |-> start,
     live_file_offset |-> offset, live_partial |-> partial]

\* the bytes read_to_end obtains through take(POLL_READ_CAP) (lines 123-126);
\* a seek that failed leaves the fresh handle at position 0
PollRead(stream, offset, io) ==
    LET position == IF io = "seek_error" THEN 0 ELSE offset
    IN  Slice(stream, Min(position, Len(stream)),
              Min(position + POLL_READ_CAP, Len(stream)))

\* poll_live_file with the fragment taken before the bytes are decoded: a
\* poll that fails to decode loses the fragment
poll_live_file_takes_early(core, has_path, stream, io) ==
    LET buf == PollRead(stream, core.live_file_offset, io)
        new_len == core.live_file_offset + Len(buf)
        r == Reassemble(core.live_partial \o buf)
        e == Evict(core.all_lines \o r.pushed, core.file_line_start)
    IN  IF ~has_path THEN [core |-> core, outcome |-> "no_path"]
        ELSE IF io = "open_error" THEN [core |-> core, outcome |-> "open_error"]
        ELSE IF io = "read_error" THEN [core |-> core, outcome |-> "read_error"]
        ELSE IF Len(buf) = 0 THEN [core |-> core, outcome |-> "empty"]
        ELSE IF ~IsUtf8(buf)
            THEN [core |-> [core EXCEPT !.live_partial = <<>>], outcome |-> "bad_utf8"]
        ELSE [core |-> Core(e.all_lines, e.file_line_start, new_len, r.partial),
              outcome |-> "ingested"]

\* poll_live_file: the new core state and what the poll came to
poll_live_file(core, has_path, stream, io) ==
    LET buf == PollRead(stream, core.live_file_offset, io)
        new_len == core.live_file_offset + Len(buf)
        r == Reassemble(core.live_partial \o buf)
        e == Evict(core.all_lines \o r.pushed, core.file_line_start)
    IN  IF ~has_path THEN [core |-> core, outcome |-> "no_path"]
        ELSE IF io = "open_error" THEN [core |-> core, outcome |-> "open_error"]
        ELSE IF io = "read_error" THEN [core |-> core, outcome |-> "read_error"]
        ELSE IF Len(buf) = 0 THEN [core |-> core, outcome |-> "empty"]
        ELSE IF ~IsUtf8(buf) THEN [core |-> core, outcome |-> "bad_utf8"]
        ELSE [core |-> Core(e.all_lines, e.file_line_start, new_len, r.partial),
              outcome |-> "ingested"]

\* ---- key handling (app.rs on_key_event and the three handlers) ------------
\* A key press: ctrl = the modifiers are exactly CONTROL, code = the
\* KeyCode variant, ch = the UTF-8 bytes of the character of KeyCode::Char.
Key(ctrl, code, ch) == [ctrl |-> ctrl, code |-> code, ch |-> ch]
IsChar(key, c) == key.code = "Char" /\ key.ch = <<c>>

SETTINGS_LEN == 6

\* char::is_control for the characters keys can carry
IsControl(ch) == Len(ch) = 1 /\ (ch[1] < 32 \/ ch[1] = 127)

Ui(run, foc, settings, sel, flt, cur, lv, panicked) ==
    [running |-> run, focus |-> foc, show_settings |-> settings,
     settings_selected |-> sel, filter |-> flt, filter_cursor |-> cur,
     live |-> lv, panic |-> panicked]

\* on_key_settings (lines 365-520); the colour choices are not part of the state
on_key_settings(u, key) ==
    IF key.code = "Esc" THEN [u EXCEPT !.show_settings = FALSE]
    ELSE IF key.code = "Enter"
        THEN IF u.settings_selected = 5 THEN [u EXCEPT !.show_settings = FALSE] ELSE u
    ELSE IF key.code = "Up" \/ IsChar(key, 107)
        THEN [u EXCEPT !.settings_selected = Max(u.settings_selected - 1, 0)]
    ELSE IF key.code = "Down" \/ IsChar(key, 106)
        THEN [u EXCEPT !.settings_selected =
                 IF u.settings_selected + 1 >= SETTINGS_LEN THEN 0
                 ELSE u.settings_selected + 1]
    ELSE u

\* on_key_filter (lines 522-559); String::insert and String::remove panic
\* off a character boundary, remove also at the end of the text
on_key_filter(u, key) ==
    IF key.code = "Esc"
        THEN IF Len(u.filter) = 0 THEN [u EXCEPT !.running = FALSE]
             ELSE [u EXCEPT !.filter = <<>>, !.filter_cursor = 0]
    ELSE IF key.code = "Enter" \/ key.code = "Tab"
        THEN [u EXCEPT !.focus = "LogList"]
    ELSE IF key.code = "Backspace"
        THEN IF u.filter_cursor > 0
             THEN LET at == u.filter_cursor - 1
                  IN  IF at >= Len(u.filter) \/ ~IsCharBoundary(u.filter, at)
                      THEN [u EXCEPT !.filter_cursor = at, !.panic = TRUE]
                      ELSE [u EXCEPT !.filter_cursor = at,
                               !.filter = SubSeq(u.filter, 1, at)
                                   \o SubSeq(u.filter, at + CharAt(u.filter, at + 1).n + 1,
                                             Len(u.filter))]
             ELSE u
    ELSE IF key.code = "Char" /\ ~IsControl(key.ch)
        THEN IF u.filter_cursor > Len(u.filter) \/ ~IsCharBoundary(u.filter, u.filter_cursor)
             THEN [u EXCEPT !.panic = TRUE]
             ELSE [u EXCEPT !.filter = SubSeq(u.filter, 1, u.filter_cursor) \o key.ch
                                \o SubSeq(u.filter, u.filter_cursor + 1, Len(u.filter)),
                            !.filter_cursor = u.filter_cursor + 1]
    ELSE IF key.ctrl /\ IsChar(key, 97) THEN [u EXCEPT !.filter_cursor = 0]
    ELSE IF key.ctrl /\ IsChar(key, 101) THEN [u EXCEPT !.filter_cursor = Len(u.filter)]
    ELSE IF key.code = "Left" THEN [u EXCEPT !.filter_cursor = Max(u.filter_cursor - 1, 0)]
    ELSE IF key.code = "Right"
        THEN [u EXCEPT !.filter_cursor = Min(u.filter_cursor + 1, Len(u.filter))]
    ELSE u

\* on_key_log_list toggling live without the test of live_file_path
on_key_log_list_toggles_always(u, key, has_path) ==
    IF IsChar(key, 115) \/ IsChar(key, 83)
        THEN [u EXCEPT !.show_settings = TRUE, !.settings_selected = 0]
    ELSE IF IsChar(key, 47) \/ (key.ctrl /\ IsChar(key, 102)) THEN [u EXCEPT !.focus = "Filter"]
    ELSE IF key.code = "Tab" THEN [u EXCEPT !.focus = "Filter"]
    ELSE IF IsChar(key, 108) \/ IsChar(key, 76) \/ IsChar(key, 102) \/ IsChar(key, 70)
        THEN [u EXCEPT !.live = ~u.live]
    ELSE u

\* on_key_log_list (lines 561-601); the list selection is not part of the state
on_key_log_list(u, key, has_path) ==
    IF IsChar(key, 115) \/ IsChar(key, 83)
        THEN [u EXCEPT !.show_settings = TRUE, !.settings_selected = 0]
    ELSE IF IsChar(key, 47) \/ (key.ctrl /\ IsChar(key, 102)) THEN [u EXCEPT !.focus = "Filter"]
    ELSE IF key.code = "Tab" THEN [u EXCEPT !.focus = "Filter"]
    ELSE IF IsChar(key, 108) \/ IsChar(key, 76) \/ IsChar(key, 102) \/ IsChar(key, 70)
        THEN IF has_path THEN [u EXCEPT !.live = ~u.live] ELSE u
    ELSE u

\* on_key_event (lines 340-363)
on_key_event(u, key, has_path) ==
    IF u.show_settings THEN on_key_settings(u, key)
    ELSE IF IsChar(key, 113) \/ (key.ctrl /\ (IsChar(key, 99) \/ IsChar(key, 67)))
        THEN [u EXCEPT !.running = FALSE]
    ELSE IF key.code = "Esc" /\ u.focus # "Filter" THEN [u EXCEPT !.running = FALSE]
    ELSE IF u.focus = "Filter" THEN on_key_filter(u, key)
    ELSE on_key_log_list(u, key, has_path)


\* ---- settings (theme.rs, settings.rs) ---------------------------------------
\* X::all(), in the order of the slice; the first element of each is not
\* always the default
AccentColor_all == <<"Cyan", "Green", "Yellow", "Magenta", "Blue">>
TextColor_all == <<"White", "Gray", "Cyan", "Green", "Yellow">>
TextStyle_all == <<"Normal", "Bold", "Dim">>
BorderColor_all == <<"White", "Gray", "DarkGray">>
StatusColor_all == <<"Gray", "DarkGray", "White">>

\* #[default]
AccentColor_default == "Cyan"
TextColor_default == "White"
TextStyle_default == "Normal"
BorderColor_default == "Gray"
StatusColor_default == "Gray"

\* X::name(): the name as ASCII bytes ("Cyan", "Green", "Yellow", "Magenta",
\* "Blue", "White", "Gray", "Dark", "Normal", "Bold", "Dim")
AccentColor_name(c) ==
    CASE c = "Cyan" -> <<67, 121, 97, 110>>
      [] c = "Green" -> <<71, 114, 101, 101, 110>>
      [] c = "Yellow" -> <<89, 101, 108, 108, 111, 119>>
      [] c = "Magenta" -> <<77, 97, 103, 101, 110, 116, 97>>
      [] c = "Blue" -> <<66, 108, 117, 101>>
TextColor_name(c) ==
    CASE c = "White" -> <<87, 104, 105, 116, 101>>
      [] c = "Gray" -> <<71, 114, 97, 121>>
      [] c = "Cyan" -> <<67, 121, 97, 110>>
      [] c = "Green" -> <<71, 114, 101, 101, 110>>
      [] c = "Yellow" -> <<89, 101, 108, 108, 111, 119>>
TextStyle_name(c) ==
    CASE c = "Normal" -> <<78, 111, 114, 109, 97, 108>>
      [] c = "Bold" -> <<66, 111, 108, 100>>
      [] c = "Dim" -> <<68, 105, 109>>
BorderColor_name(c) ==
    CASE c = "White" -> <<87, 104, 105, 116, 101>>
      [] c = "Gray" -> <<71, 114, 97, 121>>
      [] c = "DarkGray" -> <<68, 97, 114, 107>>

\* StatusColor::name with DarkGray written as "Gray", the name of another variant
StatusColor_name_shared(c) ==
    CASE c = "Gray" -> <<71, 114, 97, 121>>
      [] c = "DarkGray" -> <<71, 114, 97, 121>>
      [] c = "White" -> <<87, 104, 105, 116, 101>>

StatusColor_name(c) ==
    CASE c = "Gray" -> <<71, 114, 97, 121>>
      [] c = "DarkGray" -> <<68, 97, 114, 107>>
      [] c = "White" -> <<87, 104, 105, 116, 101>>

\* str::eq_ignore_ascii_case
EqIgnoreAsciiCase(a, b) == ToLowercase(a) = ToLowercase(b)

\* X::all().iter().find(|c| c.name().eq_ignore_ascii_case(v)).copied()
\*     .unwrap_or_default()  (settings.rs 59-93); names[i] is all[i].name()
ParseName(all, names, default, v) ==
    LET hits == {i \in 1..Len(all) : EqIgnoreAsciiCase(names[i], v)}
    IN  IF hits = {} THEN default
        ELSE all[CHOOSE i \in hits : \A j \in hits : i <= j]

Settings(accent, text_color, text_style, border_color, status_color) ==
    [accent |-> accent, text_color |-> text_color, text_style |-> text_style,
     border_color |-> border_color, status_color |-> status_color]

SettingsDefault ==
    Settings(AccentColor_default, TextColor_default, TextStyle_default,
             BorderColor_default, StatusColor_default)

\* every combination of the five settings
AllSettings ==
    { Settings(AccentColor_all[a], TextColor_all[t], TextStyle_all[s],
               BorderColor_all[b], StatusColor_all[u]) :
        a \in 1..5, t \in 1..5, s \in 1..3, b \in 1..3, u \in 1..3 }

\* a JSON string literal of serde_json: the text between quotes, with the
\* quote and the backslash escaped by a backslash
QUOTE == 34
BACKSLASH == 92
RECURSIVE JsonEscape(_)
JsonEscape(s) ==
    IF Len(s) = 0 THEN <<>>
    ELSE (IF s[1] \in {QUOTE, BACKSLASH} THEN <<BACKSLASH, s[1]>> ELSE <<s[1]>>)
             \o JsonEscape(Tail(s))
JsonString(s) == <<QUOTE>> \o JsonEscape(s) \o <<QUOTE>>

\* the text of a string literal, or "error" when lit is not one
RECURSIVE JsonUnescape(_)
JsonUnescape(s) ==
    IF Len(s) = 0 THEN [ok |-> TRUE, text |-> <<>>]
    ELSE IF s[1] = QUOTE THEN [ok |-> FALSE, text |-> <<>>]
    ELSE IF s[1] = BACKSLASH
        THEN IF Len(s) >= 2 /\ s[2] \in {QUOTE, BACKSLASH}
             THEN LET r == JsonUnescape(SubSeq(s, 3, Len(s)))
                  IN  [ok |-> r.ok, text |-> <<s[2]>> \o r.text]
             ELSE [ok |-> FALSE, text |-> <<>>]
    ELSE LET r == JsonUnescape(Tail(s))
         IN  [ok |-> r.ok, text |-> <<s[1]>> \o r.text]
JsonParseString(lit) ==
    IF Len(lit) >= 2 /\ lit[1] = QUOTE /\ lit[Len(lit)] = QUOTE
    THEN JsonUnescape(SubSeq(lit, 2, Len(lit) - 1))
    ELSE [ok |-> FALSE, text |-> <<>>]

\* the settings file: absent, or the value of each field of SavedSettings as
\* the literal serde_json::to_string_pretty writes for it
NoSettingsFile == [exists |-> FALSE]

\* what the file system does to save_settings and to load_settings
SettingsIo == {"ok", "no_path", "error"}

\* save_settings (settings.rs 103-134): the file after the call; without a
\* config directory, or when the write fails, the call returns silently
save_settings(old_file, v, io) ==
    IF io = "no_path" THEN old_file
    ELSE IF io = "error" THEN old_file
    ELSE [exists |-> TRUE,
          accent |-> JsonString(AccentColor_name(v.accent)),
          text_color |-> JsonString(TextColor_name(v.text_color)),
          text_style |-> JsonString(TextStyle_name(v.text_style)),
          border_color |-> JsonString(BorderColor_name(v.border_color)),
          status_color |-> JsonString(StatusColor_name(v.status_color))]

\* load_settings (settings.rs 22-101)
load_settings(f, io) ==
    IF io = "no_path" THEN SettingsDefault
    ELSE IF io = "error" \/ ~f.exists THEN SettingsDefault
    ELSE LET a == JsonParseString(f.accent)
             t == JsonParseString(f.text_color)
             s == JsonParseString(f.text_style)
             b == JsonParseString(f.border_color)
             u == JsonParseString(f.status_color)
         IN  IF ~(a.ok /\ t.ok /\ s.ok /\ b.ok /\ u.ok) THEN SettingsDefault
             ELSE Settings(
                 ParseName(AccentColor_all, [i \in 1..Len(AccentColor_all) |-> AccentColor_name(AccentColor_all[i])],
                           AccentColor_default, a.text),
                 ParseName(TextColor_all, [i \in 1..Len(TextColor_all) |-> TextColor_name(TextColor_all[i])],
                           TextColor_default, t.text),
                 ParseName(TextStyle_all, [i \in 1..Len(TextStyle_all) |-> TextStyle_name(TextStyle_all[i])],
                           TextStyle_default, s.text),
                 ParseName(BorderColor_all, [i \in 1..Len(BorderColor_all) |-> BorderColor_name(BorderColor_all[i])],
                           BorderColor_default, b.text),
                 ParseName(StatusColor_all, [i \in 1..Len(StatusColor_all) |-> StatusColor_name(StatusColor_all[i])],
                           StatusColor_default, u.text))

\* ---- centered_rect (util.rs 20-31) ------------------------------------------
\* u16 arithmetic: a result above u16::MAX panics in a build with overflow
\* checks ("debug") and wraps in one without ("release")
U16 == 65536
Builds == {"debug", "release"}
MulU16(a, b) == [overflow |-> a * b >= U16, value |-> (a * b) % U16]
AddU16(a, b) == [overflow |-> a + b >= U16, value |-> (a + b) % U16]
SaturatingSub(a, b) == IF a >= b THEN a - b ELSE 0

Rect(x, y, width, height) == [x |-> x, y |-> y, width |-> width, height |-> height]

\* centered_rect: the Rect returned, whether a computation overflowed, and
\* whether the call panicked (the Rect is then not returned)
centered_rect(area, width_pct, height_pct, build) ==
    LET wm == MulU16(area.width, width_pct)
        hm == MulU16(area.height, height_pct)
        w == wm.value \div 100
        h == hm.value \div 100
        xa == AddU16(area.x, SaturatingSub(area.width, w) \div 2)
        ya == AddU16(area.y, SaturatingSub(area.height, h) \div 2)
        overflow == wm.overflow \/ hm.overflow \/ xa.overflow \/ ya.overflow
    IN  [rect |-> Rect(xa.value, ya.value, w, h),
         overflow |-> overflow,
         panic |-> overflow /\ build = "debug"]


\* ---- state ------------------------------------------------------------------
VARIABLES
    file,              \* the bytes of the log file on disk
    file_arg,          \* TRUE iff a path was given on the command line
    pc,                \* "start", "loaded", "top", "events", "done",
                       \* "load_error", "panic"
    load_status,       \* how load_logs ended: "none", "ok", "not_found", "io_error", "panic"
    load_message,      \* the message of the error load_logs returned, in parts
    running, all_lines, live, live_file_path, live_file_offset, live_partial,
    file_line_start, filter, filter_cursor, focus, show_settings,
    settings_selected, \* settings_list_state.selected()
    appended,          \* history: bytes appended to the file since the cold load
    faults,            \* history: I/O failures the code went on after (the
                       \* seek of a poll, the read of the large-file load)
    truncated,         \* history: the file was truncated or replaced since
                       \* the cold load
    \* a BufReader handed to read_line_bounded call after call (ReaderSpec)
    r_stream,          \* the bytes of the underlying stream
    r_pos,             \* the reader's position
    r_prev,            \* its position before the latest call
    r_last,            \* what the latest call returned
    r_lines,           \* the lines returned so far
    r_calls,           \* the number of calls made
    \* one call of apply_filter (FilterSpec)
    f_lines, f_filter, f_max_lines,   \* its arguments
    f_called,          \* TRUE once it has returned
    f_out,             \* the Vec<(usize, String)> it returned
    \* save_settings followed by load_settings (SettingsSpec)
    s_values,          \* the five settings of the app
    s_file,            \* the settings file
    s_phase,           \* "new", "saved" (save_settings returned), "loaded"
    s_io,              \* what the file system did to the calls made so far
    s_loaded,          \* the tuple load_settings returned
    \* one call of centered_rect (RectSpec)
    cr_area, cr_width_pct, cr_height_pct,   \* its arguments
    cr_build,          \* whether the build checks arithmetic overflow
    cr_called,         \* TRUE once the call has ended
    cr_out,            \* what centered_rect came to
    \* the streaming strategy of load_logs on a file (StreamSpec)
    sl_stream,         \* the bytes of the file
    sl_called,         \* TRUE once it has returned
    sl_out,            \* the tuple it returned
    \* poll_live_file call after call on a growing file (ChunkSpec)
    k_file,            \* the bytes of the file
    k_core,            \* all_lines, file_line_start, live_file_offset, live_partial
    k_origin,          \* history: the offset the polls started at
    k_polled,          \* history: the lines the polls appended, none evicted
    k_faults,          \* history: the seeks that failed
    \* the large-file strategy step by step beside a writer (TailSpec)
    w_file,            \* the bytes of the file
    w_phase,           \* "start", "sized" after fs::metadata, "done" after the read
    w_size,            \* file_size as fs::metadata returned it
    w_added,           \* history: the bytes appended since fs::metadata
    w_out              \* the bytes read, the tuple load_logs returned, and as
                       \* history the length of the file when it was read

core_vars == <<all_lines, file_line_start, live_file_offset, live_partial>>
ui_vars == <<running, live, filter, filter_cursor, focus, show_settings, settings_selected>>
hist_vars == <<appended, faults, truncated>>
app_vars == <<file, file_arg, pc, load_status, load_message, live_file_path,
              core_vars, ui_vars, hist_vars>>
reader_vars == <<r_stream, r_pos, r_prev, r_last, r_lines, r_calls>>
filter_vars == <<f_lines, f_filter, f_max_lines, f_called, f_out>>
settings_vars == <<s_values, s_file, s_phase, s_io, s_loaded>>
rect_vars == <<cr_area, cr_width_pct, cr_height_pct, cr_build, cr_called, cr_out>>
stream_vars == <<sl_stream, sl_called, sl_out>>
chunk_vars == <<k_file, k_core, k_origin, k_polled, k_faults>>
tail_vars == <<w_file, w_phase, w_size, w_added, w_out>>
unit_vars == <<reader_vars, filter_vars, settings_vars, rect_vars, stream_vars, chunk_vars,
               tail_vars>>
vars == <<app_vars, unit_vars>>

\* no reader is in use
ReaderIdle ==
    /\ r_stream = <<>>
    /\ r_pos = 0
    /\ r_prev = 0
    /\ r_last = [some |-> FALSE, line |-> <<>>]
    /\ r_lines = <<>>
    /\ r_calls = 0

\* no call of apply_filter is under way
FilterIdle ==
    /\ f_lines = <<>>
    /\ f_filter = <<>>
    /\ f_max_lines = 0
    /\ f_called = FALSE
    /\ f_out = <<>>

\* no settings are being saved or loaded
SettingsIdle ==
    /\ s_values = SettingsDefault
    /\ s_file = NoSettingsFile
    /\ s_phase = "new"
    /\ s_io = <<>>
    /\ s_loaded = SettingsDefault

\* no call of centered_rect is under way
RectIdle ==
    /\ cr_area = Rect(0, 0, 0, 0)
    /\ cr_width_pct = 0
    /\ cr_height_pct = 0
    /\ cr_build = "debug"
    /\ cr_called = FALSE
    /\ cr_out = [rect |-> Rect(0, 0, 0, 0), overflow |-> FALSE, panic |-> FALSE]

\* no file is being streamed
StreamIdle ==
    /\ sl_stream = <<>>
    /\ sl_called = FALSE
    /\ sl_out = LoadResult("none", <<>>, FALSE, 0, 0)

\* no poller is run by itself
ChunkIdle ==
    /\ k_file = <<>>
    /\ k_core = Core(<<>>, 1, 0, <<>>)
    /\ k_origin = 0
    /\ k_polled = <<>>
    /\ k_faults = 0

\* no large file is being loaded step by step
TailIdle ==
    /\ w_file = <<>>
    /\ w_phase = "start"
    /\ w_size = 0
    /\ w_added = <<>>
    /\ w_out = [buf |-> <<>>, lines |-> <<>>, file_offset |-> 0, panic |-> FALSE, seen |-> 0]

InitFiles == SeqsUpTo(ByteAlphabet, MaxInitLen)

\* the keys pressed while the log list has the focus and the panel is closed
CoreKeys == {Key(FALSE, "Char", <<113>>), Key(FALSE, "Char", <<108>>),
             Key(FALSE, "Esc", <<>>), Key(FALSE, "Down", <<>>)}

Init ==
    /\ file_arg \in BOOLEAN
    /\ file \in IF file_arg THEN InitFiles ELSE {<<>>}
    /\ pc = "start"
    /\ load_status = "none"
    /\ load_message = <<>>
    /\ running = FALSE
    /\ all_lines = <<>>
    /\ live = FALSE
    /\ live_file_path = FALSE
    /\ live_file_offset = 0
    /\ live_partial = <<>>
    /\ file_line_start = 0
    /\ filter = <<>>
    /\ filter_cursor = 0
    /\ focus = "LogList"
    /\ show_settings = FALSE
    /\ settings_selected = 0
    /\ appended = 0
    /\ faults = 0
    /\ truncated = FALSE
    /\ ReaderIdle
    /\ FilterIdle
    /\ SettingsIdle
    /\ RectIdle
    /\ StreamIdle
    /\ ChunkIdle
    /\ TailIdle

\* the read of the large-file strategy failed and load_logs went on (line 195)
ReadErrorIgnored(has_path, stream, io) ==
    has_path /\ io.kind = "read_error" /\ Len(stream) > TAIL_READ_SIZE

\* the tuple load_logs returns, held in the variables App::new takes it from
LoadReturn(r) ==
    /\ load_status' = r.status
    /\ load_message' = r.message
    /\ pc' = IF r.status = "ok" THEN "loaded"
             ELSE IF r.status = "panic" THEN "panic" ELSE "load_error"
    /\ all_lines' = r.lines
    /\ live_file_path' = r.path
    /\ live_file_offset' = r.file_offset
    /\ file_line_start' = r.file_line_start

\* main (main.rs 287): load_logs()?
LoadLogs(io) ==
    /\ pc = "start"
    /\ io.kind # "ok" => file_arg
    /\ LoadReturn(load_logs(file_arg, file, io))
    /\ faults' = IF ReadErrorIgnored(file_arg, file, io) THEN faults + 1 ELSE faults
    /\ UNCHANGED <<file, file_arg, live_partial, ui_vars, appended, truncated>>
    /\ UNCHANGED unit_vars

\* App::new (app.rs 49-86)
AppNew ==
    /\ pc = "loaded"
    /\ LET e == Evict(all_lines, file_line_start)
       IN  /\ all_lines' = e.all_lines
           /\ file_line_start' = e.file_line_start
    /\ running' = TRUE
    /\ filter' = <<>>
    /\ filter_cursor' = 0
    /\ focus' = "LogList"
    /\ live' = FALSE
    /\ live_partial' = <<>>
    /\ show_settings' = FALSE
    /\ settings_selected' = 0
    /\ pc' = "top"
    /\ UNCHANGED <<file, file_arg, load_status, load_message, live_file_path, live_file_offset, hist_vars>>
    /\ UNCHANGED unit_vars

\* another process appends one byte to the log file.  The poll at the top of
\* the loop is the only reader, so where in an iteration the byte lands makes
\* no difference: it is taken to land before the poll
FileAppend(b) ==
    /\ pc = "top"
    /\ file_arg
    /\ appended < MaxAppend
    /\ file' = Append(file, b)
    /\ appended' = appended + 1
    /\ UNCHANGED <<file_arg, pc, load_status, load_message, live_file_path, core_vars, ui_vars, faults, truncated>>
    /\ UNCHANGED unit_vars

\* App::run (app.rs 168-172): draw, then poll_live_file if live
Tick(io) ==
    /\ pc = "top"
    /\ io # "ok" => live
    /\ io = "seek_error" => faults < MaxFaults
    /\ IF live
       THEN LET r == poll_live_file(Core(all_lines, file_line_start, live_file_offset,
                                         live_partial), live_file_path, file, io)
            IN  /\ all_lines' = r.core.all_lines
                /\ file_line_start' = r.core.file_line_start
                /\ live_file_offset' = r.core.live_file_offset
                /\ live_partial' = r.core.live_partial
       ELSE UNCHANGED core_vars
    /\ faults' = IF io = "seek_error" THEN faults + 1 ELSE faults
    /\ pc' = "events"
    /\ UNCHANGED <<file, file_arg, load_status, load_message, live_file_path, ui_vars, appended, truncated>>
    /\ UNCHANGED unit_vars

\* the key press with the carried fragment dropped when live mode is toggled
KeyEvent_drops_fragment(key) ==
    /\ pc = "events"
    /\ LET u == on_key_event(Ui(running, focus, show_settings, settings_selected,
                                filter, filter_cursor, live, FALSE), key, live_file_path)
       IN  /\ running' = u.running
           /\ focus' = u.focus
           /\ show_settings' = u.show_settings
           /\ settings_selected' = u.settings_selected
           /\ filter' = u.filter
           /\ filter_cursor' = u.filter_cursor
           /\ live' = u.live
           /\ live_partial' = IF u.live # live THEN <<>> ELSE live_partial
           /\ pc' = IF u.panic THEN "panic" ELSE IF u.running THEN "top" ELSE "done"
    /\ UNCHANGED <<file, file_arg, load_status, load_message, live_file_path,
                   all_lines, file_line_start, live_file_offset, hist_vars>>
    /\ UNCHANGED unit_vars

\* handle_crossterm_events (app.rs 312-338) receiving a key press
KeyEvent(key) ==
    /\ pc = "events"
    /\ LET u == on_key_event(Ui(running, focus, show_settings, settings_selected,
                                filter, filter_cursor, live, FALSE), key, live_file_path)
       IN  /\ running' = u.running
           /\ focus' = u.focus
           /\ show_settings' = u.show_settings
           /\ settings_selected' = u.settings_selected
           /\ filter' = u.filter
           /\ filter_cursor' = u.filter_cursor
           /\ live' = u.live
           /\ pc' = IF u.panic THEN "panic" ELSE IF u.running THEN "top" ELSE "done"
    /\ UNCHANGED <<file, file_arg, load_status, load_message, live_file_path, core_vars, hist_vars>>
    /\ UNCHANGED unit_vars

\* handle_crossterm_events in live mode when the 400 ms sleep wins the select
Timeout ==
    /\ pc = "events"
    /\ live
    /\ pc' = "top"
    /\ UNCHANGED <<file, file_arg, load_status, load_message, live_file_path, core_vars, ui_vars, hist_vars>>
    /\ UNCHANGED unit_vars

\* handle_crossterm_events receiving an event that is not a key press
OtherEvent ==
    /\ pc = "events"
    /\ pc' = "top"
    /\ UNCHANGED <<file, file_arg, load_status, load_message, live_file_path, core_vars, ui_vars, hist_vars>>
    /\ UNCHANGED unit_vars

Next ==
    \/ \E io \in LoadIo : LoadLogs(io)
    \/ AppNew
    \/ \E b \in ByteAlphabet : FileAppend(b)
    \/ \E io \in PollIo : Tick(io)
    \/ \E key \in CoreKeys : KeyEvent(key)
    \/ Timeout
    \/ OtherEvent

Spec == Init /\ [][Next]_vars


\* ---- reference notions the claims are stated with -------------------------
\* the app is constructed and its loop has started
Started == pc \in {"top", "events", "done"}

\* the lines of a source: the newline-terminated segments and a final
\* unterminated fragment if it is not empty
SourceLines(stream) ==
    LET pieces == SplitNewline(stream)
        n == Len(pieces)
    IN  IF Len(pieces[n]) = 0 THEN SubSeq(pieces, 1, n - 1) ELSE pieces

\* the file as the cold load found it (appends add one byte each)
InitialFile == SubSeq(file, 1, Len(file) - appended)

\* a source line as the bounded reader delivers it (spec 4.1): its first
\* MAX_LINE_LEN bytes, decoded with replacement
LogicalLine(l) == FromUtf8Lossy(SubSeq(l, 1, Min(Len(l), MAX_LINE_LEN)))
LogicalLines(stream) ==
    LET ls == SourceLines(stream) IN [i \in 1..Len(ls) |-> LogicalLine(ls[i])]

\* ---- C1 ---------------------------------------------------------------------
\* C1: in every state after App::new, whatever the file holds and however
\* key events, polls and appends interleave, all_lines has at most
\* MAX_LINES entries.
C1_BufferCapped == Started => Len(all_lines) <= MAX_LINES

\* polls have read the whole of a file that grew, and have evicted so many
\* lines that the first one kept has a number the file does not reach
C1_Witness ==
    /\ pc = "events"
    /\ live
    /\ appended > 0
    /\ live_file_offset = Len(file)
    /\ Len(all_lines) = MAX_LINES
    /\ file_line_start > Len(SourceLines(file))

\* ---- C2 ---------------------------------------------------------------------
\* C2: after a cold load and any number of polls of an append-only file,
\* entry i of the buffer is the line number file_line_start + i of the file.
\* Stated for the runs in which no I/O failure was ignored, the file is valid UTF-8 with no
\* line above MAX_LINE_LEN, and the cold load streamed a file whose last line
\* was terminated.
C2_LineNumbersTrue ==
    (/\ Started
     /\ file_arg
     /\ faults = 0
     /\ Len(InitialFile) <= TAIL_READ_SIZE
     /\ (Len(InitialFile) > 0 => InitialFile[Len(InitialFile)] = NL)
     /\ IsUtf8(file)
     /\ \A j \in 1..Len(SourceLines(file)) : Len(SourceLines(file)[j]) <= MAX_LINE_LEN)
    => \A i \in 1..Len(all_lines) :
          LET n == file_line_start + i - 1
          IN  /\ n \in 1..Len(SourceLines(file))
              /\ SourceLines(file)[n] = all_lines[i]

\* the core state App::new builds from a cold load of the file as it is
AsLoaded ==
    LET r == load_logs(TRUE, file, [kind |-> "ok", k |-> 0])
        e == Evict(r.lines, r.file_line_start)
    IN  Core(e.all_lines, e.file_line_start, r.file_offset, <<>>)

\* ---- C3 ---------------------------------------------------------------------
\* C3: if the file was not modified after the cold load, the first poll
\* changes none of all_lines, file_line_start, live_file_offset, live_partial.
C3_FirstPollNoOp ==
    [][(/\ Tick("ok") /\ live /\ appended = 0 /\ faults = 0
        /\ Core(all_lines, file_line_start, live_file_offset, live_partial) = AsLoaded)
       => UNCHANGED core_vars]_vars

\* ---- C4 ---------------------------------------------------------------------
SplitBytes == SeqsUpTo(ByteAlphabet, POLL_READ_CAP)

\* the buffer after the bytes b1 are appended and polled, then b2
TwoPolls(core, stream, b1, b2) ==
    LET first == poll_live_file(core, TRUE, stream \o b1, "ok").core
    IN  poll_live_file(first, TRUE, stream \o b1 \o b2, "ok").core.all_lines

\* C4: from a state in which the poller has consumed the whole file, for every
\* valid UTF-8 string B of at most POLL_READ_CAP bytes and every split
\* B = B1 ++ B2: append B1, poll, append B2, poll gives the same buffer as
\* append B, poll.
C4_SplitEqualsWhole ==
    (pc = "top" /\ live_file_path /\ live_file_offset = Len(file))
    => \A B \in SplitBytes : IsUtf8(B) =>
          \A k \in 0..Len(B) :
             LET core == Core(all_lines, file_line_start, live_file_offset, live_partial)
             IN  TwoPolls(core, file, SubSeq(B, 1, k), SubSeq(B, k + 1, Len(B)))
                   = poll_live_file(core, TRUE, file \o B, "ok").core.all_lines

\* ---- C5 ---------------------------------------------------------------------
NotIngested == {"no_path", "open_error", "read_error", "empty", "bad_utf8"}

\* C5: a poll that ingests nothing (no path, open or read failure, zero bytes
\* at the offset, bytes that are not UTF-8) changes none of all_lines,
\* file_line_start, live_file_offset and live_partial.
C5_FailedPollNoOp ==
    [][\A io \in PollIo :
          (/\ Tick(io) /\ live
           /\ poll_live_file(Core(all_lines, file_line_start, live_file_offset,
                                  live_partial), live_file_path, file, io).outcome
                 \in NotIngested)
          => UNCHANGED core_vars]_vars

\* a poll has just run in live mode, a fragment is carried, and the bytes at
\* the offset do not decode.  The poll was not one that ingested: with more
\* bytes left it would have read the POLL_READ_CAP bytes before the offset,
\* and there are not that many or they do not decode either
C5_Witness ==
    /\ pc = "events"
    /\ live
    /\ faults = 0
    /\ Len(live_partial) > 0
    /\ live_file_offset < Len(file)
    /\ ~IsUtf8(PollRead(file, live_file_offset, "ok"))
    /\ \/ live_file_offset < POLL_READ_CAP
       \/ ~IsUtf8(Slice(file, live_file_offset - POLL_READ_CAP, live_file_offset))


\* ---- C6 (liveness) ----------------------------------------------------------
\* The loop with the I/O succeeding and the L key as the only input; the
\* loop always goes on: draw and poll run to completion, and in live mode
\* the 400 ms sleep ends the wait for an event.
LiveKeys == {Key(FALSE, "Char", <<108>>)}

NextLive ==
    \/ LoadLogs([kind |-> "ok", k |-> 0])
    \/ AppNew
    \/ \E b \in ByteAlphabet : FileAppend(b)
    \/ Tick("ok")
    \/ \E key \in LiveKeys : KeyEvent(key)
    \/ Timeout
    \/ OtherEvent

LiveSpec ==
    /\ Init
    /\ [][NextLive]_vars
    /\ WF_vars(Tick("ok"))
    /\ WF_vars(Timeout)

\* C6: if the file holds valid UTF-8, has stopped growing, and live mode
\* stays on, the polls eventually bring live_file_offset to the file size
\* and keep it there.
C6_PollsDrainFile ==
    <>[](Started /\ running /\ live /\ IsUtf8(file))
        => <>[](live_file_offset = Len(file))

\* ---- C7 ---------------------------------------------------------------------
\* C7: every retained line holds at most MAX_LINE_LEN bytes plus the
\* truncation marker, and live_partial at most a fixed number of bytes (here
\* MAX_LINE_LEN + POLL_READ_CAP), whatever the file grows by.  Stated for the
\* runs in which no I/O failure was ignored and the file is valid UTF-8.
C7_PerLineBounded ==
    (Started /\ faults = 0 /\ IsUtf8(file))
    => /\ \A i \in 1..Len(all_lines) : Len(all_lines[i]) <= MAX_LINE_LEN + Len(MARKER)
       /\ Len(live_partial) <= MAX_LINE_LEN + POLL_READ_CAP

\* ---- C8 ---------------------------------------------------------------------
\* C8 as claimed: for every file with at most MAX_LINES lines the loaded
\* buffer is the file's lines in order, first_line_number 1, offset 0.
C8_SmallFileExact ==
    (pc = "loaded" /\ file_arg /\ Len(SourceLines(file)) <= MAX_LINES)
    => /\ all_lines = LogicalLines(file)
       /\ file_line_start = 1
       /\ live_file_offset = 0

\* C8 as amended: for every file of at most TAIL_READ_SIZE bytes with at most
\* MAX_LINES lines the loaded buffer is the file's lines in order (each as
\* the bounded reader delivers it), first_line_number 1, offset 0.
C8_SmallFileExactStreamed ==
    (/\ pc = "loaded" /\ file_arg
     /\ Len(file) <= TAIL_READ_SIZE
     /\ Len(SourceLines(file)) <= MAX_LINES)
    => /\ all_lines = LogicalLines(file)
       /\ file_line_start = 1
       /\ live_file_offset = 0

\* a streamed file of exactly MAX_LINES lines, one of them changed by the reader
C8_Witness ==
    /\ pc = "loaded" /\ file_arg
    /\ Len(file) <= TAIL_READ_SIZE
    /\ Len(SourceLines(file)) = MAX_LINES
    /\ Len(all_lines) = MAX_LINES
    /\ \E j \in 1..MAX_LINES : SourceLines(file)[j] # all_lines[j]

\* ---- C9 ---------------------------------------------------------------------
\* C9: a streamed source of N lines keeps exactly its last min(N, MAX_LINES)
\* lines in order, with first_line_number = N - kept + 1; this holds of
\* load_logs on a file of at most TAIL_READ_SIZE bytes and of
\* parse_log_content on a string.
C9_LastLinesKept ==
    (pc = "loaded" /\ file_arg /\ Len(file) <= TAIL_READ_SIZE)
    => /\ all_lines = LastN(LogicalLines(file), MAX_LINES)
       /\ file_line_start = Len(SourceLines(file)) - Len(all_lines) + 1
       /\ IsUtf8(file) =>
            LET r == parse_log_content(file)
            IN  /\ r.lines = LastN(SourceLines(file), MAX_LINES)
                /\ r.file_line_start = Len(SourceLines(file)) - Len(r.lines) + 1

\* a streamed file of more than MAX_LINES lines
C9_Witness ==
    /\ pc = "loaded" /\ file_arg
    /\ Len(file) <= TAIL_READ_SIZE
    /\ Len(SourceLines(file)) > MAX_LINES
    /\ Len(all_lines) = MAX_LINES
    /\ file_line_start = Len(SourceLines(file)) - MAX_LINES + 1
    /\ file_line_start > 1

\* ---- C10 --------------------------------------------------------------------
\* C10: for a file larger than TAIL_READ_SIZE, load_logs returns at most
\* MAX_LINES lines, each of them a newline-delimited fragment of what was read
\* of the last TAIL_READ_SIZE bytes (decoded, cut and marked), with
\* first_line_number 1 and file_offset the size of the file.
C10_LargeFileTail ==
    (pc = "loaded" /\ file_arg /\ Len(file) > TAIL_READ_SIZE)
    => /\ Len(all_lines) <= MAX_LINES
       /\ file_line_start = 1
       /\ live_file_offset = Len(file)
       /\ LET window == SubSeq(file, Len(file) - TAIL_READ_SIZE + 1, Len(file))
          IN  \E k \in 0..TAIL_READ_SIZE :
                LET pieces == SplitNewline(SubSeq(window, 1, k))
                IN  \A i \in 1..Len(all_lines) :
                       \E j \in 1..Len(pieces) :
                          all_lines[i] = TailFragment(pieces[j]).text

\* a large file whose first bytes are no line of the buffer and whose
\* window gave MAX_LINES lines
C10_Witness ==
    /\ pc = "loaded" /\ file_arg
    /\ Len(file) > TAIL_READ_SIZE
    /\ Len(all_lines) = MAX_LINES
    /\ live_file_offset = Len(file)
    /\ file[1] # NL
    /\ \A i \in 1..MAX_LINES : all_lines[i] # <<file[1]>>

\* ---- C11 --------------------------------------------------------------------
\* C11: a cold load of a path that does not exist ends with the NotFound
\* error whose message names the path, and with no buffer, path, offset or
\* line number handed on; the app is not constructed.
C11_NotFoundNamesPath ==
    [][\A io \in LoadIo :
          (LoadLogs(io) /\ io.kind = "not_found")
          => /\ load_status' = "not_found"
             /\ \E i \in 1..Len(load_message') : load_message'[i] = PATH_DISPLAY
             /\ pc' = "load_error"
             /\ all_lines' = <<>>
             /\ live_file_path' = FALSE
             /\ live_file_offset' = 0
             /\ file_line_start' = 0]_vars

\* the load of a missing path has returned its error
C11_Witness ==
    /\ pc = "load_error"
    /\ load_status = "not_found"
    /\ load_message = <<"Log file not found: ", PATH_DISPLAY>>

\* ---- C12 --------------------------------------------------------------------
\* C12: a cold load during which opening, seeking or reading the file fails
\* returns the error, in both strategies; it never returns a buffer built
\* from the bytes read before the failure.
C12_LoadErrorsPropagated ==
    [][\A io \in LoadIo :
          (LoadLogs(io) /\ io.kind \in {"io_error", "read_error"})
          => (load_status' = "io_error" /\ pc' = "load_error")]_vars

\* ---- the bounded reader on its own (ReaderSpec) ---------------------------
\* the app is not running: the unit specifications leave its state alone
AppIdle ==
    /\ file_arg = FALSE
    /\ file = <<>>
    /\ pc = "idle"
    /\ load_status = "none"
    /\ load_message = <<>>
    /\ running = FALSE
    /\ all_lines = <<>>
    /\ live = FALSE
    /\ live_file_path = FALSE
    /\ live_file_offset = 0
    /\ live_partial = <<>>
    /\ file_line_start = 0
    /\ filter = <<>>
    /\ filter_cursor = 0
    /\ focus = "LogList"
    /\ show_settings = FALSE
    /\ settings_selected = 0
    /\ appended = 0
    /\ faults = 0
    /\ truncated = FALSE

\* BufReader::new on a stream of any content (logs.rs 204)
ReaderInit ==
    /\ AppIdle
    /\ FilterIdle
    /\ SettingsIdle
    /\ RectIdle
    /\ StreamIdle
    /\ ChunkIdle
    /\ TailIdle
    /\ r_stream \in InitFiles
    /\ r_pos = 0
    /\ r_prev = 0
    /\ r_last = [some |-> FALSE, line |-> <<>>]
    /\ r_lines = <<>>
    /\ r_calls = 0

\* one call of read_line_bounded(&mut reader); the caller of lines 207-213
\* stops at the first None, here one more call is made after it
ReadLine ==
    /\ pc = "idle"
    /\ r_calls <= Len(r_lines) + 1
    /\ LET r == read_line_bounded(r_stream, r_pos)
       IN  /\ r_last' = [some |-> r.some, line |-> r.line]
           /\ r_pos' = r.pos
           /\ r_lines' = IF r.some THEN Append(r_lines, r.line) ELSE r_lines
    /\ r_prev' = r_pos
    /\ r_calls' = r_calls + 1
    /\ UNCHANGED <<r_stream, app_vars, filter_vars, settings_vars, rect_vars, stream_vars, chunk_vars, tail_vars>>

ReaderNext == ReadLine

ReaderSpec == ReaderInit /\ [][ReaderNext]_vars

\* the bytes of the line that starts at position pos: up to the next newline
\* or the end of the stream
LineAt(stream, pos) == Slice(stream, pos, FindNewline(stream, pos))

\* the position after the line that starts at pos and after its newline
AfterLineAt(stream, pos) == Min(FindNewline(stream, pos) + 1, Len(stream))

\* the latest call met a line of more than MAX_LINE_LEN bytes
OverlongRead == r_calls > 0 /\ Len(LineAt(r_stream, r_prev)) > MAX_LINE_LEN

\* the rest of the line was discarded with its newline, and the next call
\* starts at the first byte of the following line
ResumesAtNextLine ==
    /\ r_pos = AfterLineAt(r_stream, r_prev)
    /\ LET nxt == read_line_bounded(r_stream, r_pos)
       IN  IF r_pos = Len(r_stream) THEN ~nxt.some
           ELSE nxt.some /\ nxt.line = LogicalLine(LineAt(r_stream, r_pos))

\* ---- C13 --------------------------------------------------------------------
\* C13 as claimed: a call that meets a line of more than MAX_LINE_LEN bytes
\* returns exactly the first MAX_LINE_LEN bytes of it, discards the rest up
\* to and including the newline, and the next call returns the next line.
\* Stated for the streams that are valid UTF-8.
C13_OverlongExactBytes ==
    (OverlongRead /\ IsUtf8(r_stream))
    => /\ r_last.some
       /\ r_last.line = SubSeq(LineAt(r_stream, r_prev), 1, MAX_LINE_LEN)
       /\ ResumesAtNextLine

\* C13 amended: the line returned is the first MAX_LINE_LEN bytes decoded
\* with replacement (a sequence that is invalid or cut by the cap becomes
\* U+FFFD); the rest is discarded and the next call returns the next line.
C13_OverlongLossyPrefix ==
    OverlongRead
    => /\ r_last.some
       /\ r_last.line = FromUtf8Lossy(SubSeq(LineAt(r_stream, r_prev), 1, MAX_LINE_LEN))
       /\ ResumesAtNextLine

\* an overlong line was cut, its rest was discarded with the newline, and
\* a line follows it
C13_Witness ==
    /\ OverlongRead
    /\ r_pos < Len(r_stream)
    /\ r_stream[r_pos] = NL
    /\ Len(r_last.line) = MAX_LINE_LEN

\* ---- C14 --------------------------------------------------------------------
\* C14: call after call the reader returns one line per newline-terminated
\* segment of the stream, a blank one as the empty string, then one more for
\* a non-empty unterminated end, and None from then on; None is returned
\* exactly when no byte is left.
C14_OneLinePerSegment ==
    LET src == SourceLines(r_stream)
    IN  /\ Len(r_lines) <= Len(src)
        /\ \A i \in 1..Len(r_lines) :
              /\ r_lines[i] = LogicalLine(src[i])
              /\ Len(src[i]) = 0 => r_lines[i] = <<>>
        /\ r_calls > 0 => (r_last.some <=> r_prev < Len(r_stream))
        /\ r_calls > Len(r_lines) => (Len(r_lines) = Len(src) /\ ~r_last.some)

\* the reader has returned a blank line and an unterminated last line, and
\* then None twice
C14_Witness ==
    /\ r_calls = Len(r_lines) + 2
    /\ \E i \in 1..Len(r_lines) : r_lines[i] = <<>>
    /\ Len(r_stream) > 0
    /\ r_stream[Len(r_stream)] # NL
    /\ ~r_last.some

\* ---- the filter on its own (FilterSpec) -----------------------------------
\* the lines and the queries apply_filter is called with: 'a', 'A', 'b' and
\* the space
FilterTexts == {<<>>, <<97>>, <<65>>, <<98>>, <<98, 97>>, <<98, 32, 97>>}
FilterQueries == {<<>>, <<32>>, <<97>>, <<65>>, <<32, 97>>, <<98, 32>>, <<97, 98>>}

FilterInit ==
    /\ AppIdle
    /\ ReaderIdle
    /\ SettingsIdle
    /\ RectIdle
    /\ StreamIdle
    /\ ChunkIdle
    /\ TailIdle
    /\ f_lines \in SeqsUpTo(FilterTexts, MaxFilterLines)
    /\ f_filter \in FilterQueries
    /\ f_max_lines \in 0..MaxCap
    /\ f_called = FALSE
    /\ f_out = <<>>

\* the call of apply_filter
ApplyFilter ==
    /\ pc = "idle"
    /\ ~f_called
    /\ f_out' = apply_filter(f_lines, f_filter, f_max_lines)
    /\ f_called' = TRUE
    /\ UNCHANGED <<f_lines, f_filter, f_max_lines, app_vars, reader_vars, settings_vars, rect_vars, stream_vars, chunk_vars, tail_vars>>

FilterNext == ApplyFilter

FilterSpec == FilterInit /\ [][FilterNext]_vars

\* the 0-based indices of the lines whose lowercase form contains q
\* (every line for the empty q)
MatchSet(lines, q) ==
    {i \in 0..(Len(lines) - 1) : Contains(ToLowercase(lines[i + 1]), q)}

\* the indices returned
OutIndices == {f_out[k][1] : k \in 1..Len(f_out)}

\* ---- C15 --------------------------------------------------------------------
\* C15: called with a query that is empty or only whitespace, on a buffer
\* that is within the cap as the retained buffer is, apply_filter returns
\* every line paired with its index, in order.
C15_BlankQueryIdentity ==
    (f_called /\ Len(f_lines) <= f_max_lines /\ \A i \in 1..Len(f_filter) : IsWhitespace(f_filter[i]))
    => f_out = [i \in 1..Len(f_lines) |-> <<i - 1, f_lines[i]>>]

\* a whitespace query was applied to several lines
C15_Witness ==
    /\ f_called
    /\ f_filter = <<32>>
    /\ Len(f_lines) = 2
    /\ Len(f_out) = 2

\* the pairs returned come in the order of the lines
OutInOrder == \A k \in 1..(Len(f_out) - 1) : f_out[k][1] < f_out[k + 1][1]

\* ---- C16 --------------------------------------------------------------------
\* C16 as claimed: for a query q that is not empty after trimming, every
\* entry returned contains the lowercase form of q in its lowercase form,
\* and every such entry is returned when there are no more of them than the
\* cap.
C16_MatchesLowercaseQuery ==
    LET q == ToLowercase(f_filter)
    IN  (f_called /\ Len(Trim(f_filter)) > 0)
        => /\ \A k \in 1..Len(f_out) : Contains(ToLowercase(f_out[k][2]), q)
           /\ Cardinality(MatchSet(f_lines, q)) <= f_max_lines
                 => MatchSet(f_lines, q) \subseteq OutIndices

\* C16 amended: the same with the lowercase form of q trimmed of the
\* whitespace around it.
C16_MatchesTrimmedQuery ==
    LET q == ToLowercase(Trim(f_filter))
    IN  (f_called /\ Len(Trim(f_filter)) > 0)
        => /\ \A k \in 1..Len(f_out) : Contains(ToLowercase(f_out[k][2]), q)
           /\ Cardinality(MatchSet(f_lines, q)) <= f_max_lines
                 => MatchSet(f_lines, q) \subseteq OutIndices

\* the query " a" returned a line that holds "a" but not " a", found an
\* upper-case match, and left a line out
C16_Witness ==
    /\ f_called
    /\ f_filter = <<32, 97>>
    /\ \E k \in 1..Len(f_out) : f_out[k][2] = <<98, 97>>
    /\ \E k \in 1..Len(f_out) : f_out[k][2] = <<65>>
    /\ Len(f_out) < Len(f_lines)

\* ---- C17 --------------------------------------------------------------------
\* C17: the result never has more than max_lines entries, and when more
\* lines match than max_lines it is exactly the last max_lines matches, in
\* the order of the lines.
C17_LastMatchesKept ==
    LET M == MatchSet(f_lines, ToLowercase(Trim(f_filter)))
    IN  f_called
        => /\ Len(f_out) <= f_max_lines
           /\ Cardinality(M) > f_max_lines
                 => /\ Len(f_out) = f_max_lines
                    /\ OutIndices = {i \in M : Cardinality({j \in M : j > i}) < f_max_lines}
                    /\ OutInOrder

\* three lines matched a query and the cap is two: the oldest match was
\* dropped
C17_Witness ==
    /\ f_called
    /\ Len(Trim(f_filter)) > 0
    /\ Cardinality(MatchSet(f_lines, ToLowercase(Trim(f_filter)))) = 3
    /\ f_max_lines = 2
    /\ Len(f_out) = 2
    /\ f_out[1][1] = 1

\* ---- C18 --------------------------------------------------------------------
\* C18: every pair returned holds an index into lines and the line at that
\* index, and the indices increase strictly, whatever the buffer, the query
\* and the cap.
C18_IndexPreserving ==
    f_called
    => /\ \A k \in 1..Len(f_out) :
             /\ f_out[k][1] \in 0..(Len(f_lines) - 1)
             /\ f_out[k][2] = f_lines[f_out[k][1] + 1]
       /\ OutInOrder

\* a match was returned with an index that is not its position in the result
C18_Witness ==
    /\ f_called
    /\ Len(Trim(f_filter)) > 0
    /\ Len(f_out) = 2
    /\ f_out[1][1] = 1
    /\ f_out[2][1] = 2

\* ---- C19 --------------------------------------------------------------------
\* C19: live mode is on only in an app loaded from a file; without a file
\* path no key changes it; and a loop iteration in which live is off does
\* not poll: buffer, line number, offset and fragment stay as they are.
C19_LiveOnlyWithFile ==
    [][/\ live' => (file_arg' /\ live_file_path')
       /\ ~live_file_path => live' = live
       /\ (pc = "top" /\ ~live) => UNCHANGED core_vars]_vars

\* an iteration of the loop has just run with live mode off while the file
\* held bytes past the offset
C19_Witness ==
    /\ pc = "events"
    /\ ~live
    /\ live_file_path
    /\ appended > 0
    /\ live_file_offset < Len(file)

\* ---- C20 --------------------------------------------------------------------
\* C20: without a file argument load_logs returns the built-in sample lines,
\* of which there is at least one and at most MAX_LINES, with no file path,
\* offset 0 and first line number 1.
C20_SampleWithoutFile ==
    (pc = "loaded" /\ ~file_arg)
    => /\ load_status = "ok"
       /\ all_lines = sample_logs
       /\ Len(all_lines) \in 1..MAX_LINES
       /\ live_file_path = FALSE
       /\ live_file_offset = 0
       /\ file_line_start = 1

\* load_logs has returned for a run without a file argument
C20_Witness ==
    /\ pc = "loaded"
    /\ ~file_arg
    /\ Len(all_lines) > 0

\* ---- the key handlers under every key (UiSpec) ------------------------------
\* the keys the handlers tell apart: q, Ctrl+C, Esc, Enter, Tab, Backspace,
\* 'a', U+00E9, Ctrl+A, Ctrl+E, Left, Right, s, /, l, Up, Down
UiKeys == {Key(FALSE, "Char", <<113>>), Key(TRUE, "Char", <<99>>),
           Key(FALSE, "Esc", <<>>), Key(FALSE, "Enter", <<>>),
           Key(FALSE, "Tab", <<>>), Key(FALSE, "Backspace", <<>>),
           Key(FALSE, "Char", <<97>>), Key(FALSE, "Char", <<195, 169>>),
           Key(TRUE, "Char", <<97>>), Key(TRUE, "Char", <<101>>),
           Key(FALSE, "Left", <<>>), Key(FALSE, "Right", <<>>),
           Key(FALSE, "Char", <<115>>), Key(FALSE, "Char", <<47>>),
           Key(FALSE, "Char", <<108>>), Key(FALSE, "Up", <<>>),
           Key(FALSE, "Down", <<>>)}

\* the keys the help text gives for quitting: q and Ctrl+C
QuitKeys == {Key(FALSE, "Char", <<113>>), Key(TRUE, "Char", <<99>>)}

UiInit == Init /\ Len(file) <= MaxUiFile

\* a key press that leaves the filter text within MaxFilterLen bytes
UiKeyEvent(key) ==
    /\ (key.code = "Char" /\ focus = "Filter" /\ ~show_settings)
           => Len(filter) + Len(key.ch) <= MaxFilterLen
    /\ KeyEvent(key)

UiNext ==
    \/ \E io \in LoadIo : LoadLogs(io)
    \/ AppNew
    \/ Tick("ok")
    \/ \E key \in UiKeys : UiKeyEvent(key)
    \/ Timeout
    \/ OtherEvent

UiSpec == UiInit /\ [][UiNext]_vars

\* C21: a press of q or of Ctrl+C ends the run loop (running becomes false)
\* whatever the UI state: log list focused, filter focused, settings panel
\* shown.
C21_QuitFromEveryState ==
    [][\A key \in QuitKeys : KeyEvent(key) => (~running' /\ pc' = "done")]_vars

\* ---- save_settings then load_settings (SettingsSpec) ------------------------
\* the app holds any combination of the five settings; no file is saved yet
SettingsInit ==
    /\ AppIdle
    /\ ReaderIdle
    /\ FilterIdle
    /\ RectIdle
    /\ StreamIdle
    /\ ChunkIdle
    /\ TailIdle
    /\ s_values \in AllSettings
    /\ s_file = NoSettingsFile
    /\ s_phase = "new"
    /\ s_io = <<>>
    /\ s_loaded = SettingsDefault

\* save_settings_to_disk (app.rs 88-96)
SaveSettings(io) ==
    /\ pc = "idle"
    /\ s_phase = "new"
    /\ s_file' = save_settings(s_file, s_values, io)
    /\ s_phase' = "saved"
    /\ s_io' = Append(s_io, io)
    /\ UNCHANGED <<s_values, s_loaded, app_vars, reader_vars, filter_vars, rect_vars, stream_vars, chunk_vars, tail_vars>>

\* the load_settings() of the next App::new (app.rs 64)
LoadSettings(io) ==
    /\ pc = "idle"
    /\ s_phase = "saved"
    /\ s_loaded' = load_settings(s_file, io)
    /\ s_phase' = "loaded"
    /\ s_io' = Append(s_io, io)
    /\ UNCHANGED <<s_values, s_file, app_vars, reader_vars, filter_vars, rect_vars, stream_vars, chunk_vars, tail_vars>>

SettingsNext ==
    \/ \E io \in SettingsIo : SaveSettings(io)
    \/ \E io \in SettingsIo : LoadSettings(io)

SettingsSpec == SettingsInit /\ [][SettingsNext]_vars

\* C22: for every combination of accent colour, text colour, text style,
\* border colour and status colour, a save that writes the settings file
\* followed by a load that reads it returns the same five values.
C22_SettingsRoundTrip ==
    (s_phase = "loaded" /\ s_io = <<"ok", "ok">>) => s_loaded = s_values

\* a round trip of settings none of which is the default, with the two
\* variants written as "Dark"
C22_Witness ==
    /\ s_phase = "loaded"
    /\ s_io = <<"ok", "ok">>
    /\ s_values = Settings("Blue", "Yellow", "Dim", "DarkGray", "DarkGray")
    /\ s_loaded = s_values
    /\ s_file.border_color = JsonString(<<68, 97, 114, 107>>)

\* ---- one call of centered_rect (RectSpec) -----------------------------------
\* the sizes, the coordinates and the percentages the call is made with: the
\* ends of the u16 range, the sizes of the test (100, 20), the percentages of
\* draw_settings (56, 50), and the two widths around 65535 / 100
RectSizes == {0, 1, 20, 100, 655, 656, 65535}
RectCoords == {0, 10, 65535}
RectPcts == {0, 1, 50, 56, 100}

RectInit ==
    /\ AppIdle
    /\ ReaderIdle
    /\ FilterIdle
    /\ SettingsIdle
    /\ StreamIdle
    /\ ChunkIdle
    /\ TailIdle
    /\ cr_area \in { Rect(x, y, w, h) : x \in RectCoords, y \in RectCoords,
                                         w \in RectSizes, h \in RectSizes }
    /\ cr_width_pct \in RectPcts
    /\ cr_height_pct \in RectPcts
    /\ cr_build \in Builds
    /\ cr_called = FALSE
    /\ cr_out = [rect |-> Rect(0, 0, 0, 0), overflow |-> FALSE, panic |-> FALSE]

\* the call centered_rect(area, width_pct, height_pct)
CenteredRect ==
    /\ pc = "idle"
    /\ ~cr_called
    /\ cr_out' = centered_rect(cr_area, cr_width_pct, cr_height_pct, cr_build)
    /\ cr_called' = TRUE
    /\ UNCHANGED <<cr_area, cr_width_pct, cr_height_pct, cr_build,
                   app_vars, reader_vars, filter_vars, settings_vars, stream_vars, chunk_vars, tail_vars>>

RectNext == CenteredRect

RectSpec == RectInit /\ [][RectNext]_vars

\* C23: for every area and percentages in 0..=100, centered_rect returns
\* width = floor(area.width * width_pct / 100) and height =
\* floor(area.height * height_pct / 100), placed with equal margins inside
\* the area, and none of its u16 computations overflows.
C23_CenteredRectExact ==
    cr_called =>
        /\ ~cr_out.overflow
        /\ ~cr_out.panic
        /\ cr_out.rect.width = (cr_area.width * cr_width_pct) \div 100
        /\ cr_out.rect.height = (cr_area.height * cr_height_pct) \div 100
        /\ cr_out.rect.x = cr_area.x + (cr_area.width - cr_out.rect.width) \div 2
        /\ cr_out.rect.y = cr_area.y + (cr_area.height - cr_out.rect.height) \div 2

\* ---- the polls of the running app (Spec) ------------------------------------
\* the state the poller works on, and what the poll of this iteration comes
\* to when the file system does io
CoreNow == Core(all_lines, file_line_start, live_file_offset, live_partial)
PollNow(io) == poll_live_file(CoreNow, live_file_path, file, io)
\* the bytes that poll reads, and the text it splits
PolledBytes(io) == PollRead(file, live_file_offset, io)
PolledText(io) == live_partial \o PolledBytes(io)
\* a poll of this step that ingested
Ingests(io) == Tick(io) /\ live /\ PollNow(io).outcome = "ingested"

LastNewline(s) ==
    IF \E i \in 1..Len(s) : s[i] = NL
    THEN CHOOSE i \in 1..Len(s) : s[i] = NL /\ \A j \in (i + 1)..Len(s) : s[j] # NL
    ELSE 0
AfterLastNewline(s) == SubSeq(s, LastNewline(s) + 1, Len(s))
EndsWithNewline(s) == Len(s) > 0 /\ s[Len(s)] = NL

\* the fragments of s that a newline ends, in order
RECURSIVE Terminated(_)
Terminated(s) ==
    IF LastNewline(s) = 0 THEN <<>>
    ELSE LET first == CHOOSE i \in 1..Len(s) : s[i] = NL /\ \A j \in 1..(i - 1) : s[j] # NL
         IN  <<SubSeq(s, 1, first - 1)>> \o Terminated(SubSeq(s, first + 1, Len(s)))

AppendedCount == (file_line_start' + Len(all_lines')) - (file_line_start + Len(all_lines))

\* C26: no live poll appends an empty string to the retained buffer: a blank
\* source line is dropped whether or not the polled chunk ends with a newline.
C26_NoEmptyLineAppended ==
    [][\A io \in PollIo :
          Ingests(io) =>
              \A i \in 1..Len(all_lines') :
                  i > Len(all_lines') - AppendedCount => all_lines'[i] # <<>>]_vars

\* ---- C27 --------------------------------------------------------------------
\* C27: a poll that reads k > 0 bytes and decodes them advances
\* live_file_offset by exactly k, k <= POLL_READ_CAP; every other poll leaves
\* it unchanged; so the offset never decreases and, the file being
\* append-only, never exceeds the file size.
C27_OffsetAdvancesByBytesRead ==
    /\ [][\A io \in PollIo :
             (Tick(io) /\ live) =>
                 LET k == Len(PolledBytes(io))
                 IN  IF PollNow(io).outcome = "ingested"
                     THEN /\ k > 0
                          /\ k <= POLL_READ_CAP
                          /\ live_file_offset' = live_file_offset + k
                     ELSE live_file_offset' = live_file_offset]_vars
    /\ [][Started => live_file_offset' >= live_file_offset]_vars
    /\ [](Started => live_file_offset <= Len(file))

\* ---- C28 --------------------------------------------------------------------
\* C28: a poll whose seek to live_file_offset fails is skipped: nothing read
\* from another position is ingested, and all_lines, file_line_start,
\* live_file_offset and live_partial stay as they were.
C28_SeekFailureSkipsPoll ==
    [][(Tick("seek_error") /\ live) => UNCHANGED core_vars]_vars

\* ---- a log file that is truncated or replaced (RotateSpec) ------------------
RotateInit == Init /\ Len(file) <= MaxRotFile

\* another process appends one byte to the log file
RotateAppend(b) ==
    /\ pc = "top"
    /\ file_arg
    /\ appended < MaxRotAppend
    /\ file' = Append(file, b)
    /\ appended' = appended + 1
    /\ UNCHANGED <<file_arg, pc, load_status, load_message, live_file_path, core_vars, ui_vars, faults, truncated>>
    /\ UNCHANGED unit_vars

\* another process truncates the log file, or replaces it by a shorter one,
\* to a size below live_file_offset
FileTruncate(content) ==
    /\ pc = "top"
    /\ file_arg
    /\ Len(content) < Len(file)
    /\ Len(content) < live_file_offset
    /\ file' = content
    /\ truncated' = TRUE
    /\ UNCHANGED <<file_arg, pc, load_status, load_message, live_file_path, core_vars, ui_vars, appended, faults>>
    /\ UNCHANGED unit_vars

RotateNext ==
    \/ \E io \in LoadIo : LoadLogs(io)
    \/ AppNew
    \/ \E b \in ByteAlphabet : RotateAppend(b)
    \/ \E content \in SeqsUpTo(ByteAlphabet, MaxRotFile) : FileTruncate(content)
    \/ \E io \in PollIo : Tick(io)
    \/ \E key \in CoreKeys : KeyEvent(key)
    \/ Timeout
    \/ OtherEvent

RotateSpec == RotateInit /\ [][RotateNext]_vars

\* the bytes of the file from live_file_offset on, up to the cap of one poll
BytesAtOffset ==
    Slice(file, Min(live_file_offset, Len(file)),
          Min(live_file_offset + POLL_READ_CAP, Len(file)))

\* C29: there is no rotation detection.  After the file is truncated or
\* replaced by a shorter one the poller never resets its offset; every poll
\* is a no-op while the size is at most the offset; and once the file has
\* grown past the offset only the bytes at positions >= offset are ingested.
C29_NoRotationDetection ==
    /\ [][truncated => live_file_offset' >= live_file_offset]_vars
    /\ [][\A io \in PollIo :
             (Tick(io) /\ live /\ truncated /\ Len(file) <= live_file_offset)
                 => UNCHANGED core_vars]_vars
    /\ [][\A io \in PollIo :
             (Ingests(io) /\ truncated) =>
                 LET r == Reassemble(live_partial \o BytesAtOffset)
                 IN  /\ live_file_offset' = live_file_offset + Len(BytesAtOffset)
                     /\ live_partial' = r.partial
                     /\ all_lines' = LastN(all_lines \o r.pushed, MAX_LINES)]_vars

\* ---- the streaming strategy on its own (StreamSpec) -------------------------
\* a file of any content up to MaxStreamLen bytes: long enough for an
\* oversized line followed by MAX_LINES more lines
StreamInit ==
    /\ AppIdle
    /\ ReaderIdle
    /\ FilterIdle
    /\ SettingsIdle
    /\ RectIdle
    /\ ChunkIdle
    /\ TailIdle
    /\ sl_stream \in SeqsUpTo(ByteAlphabet, MaxStreamLen)
    /\ sl_called = FALSE
    /\ sl_out = LoadResult("none", <<>>, FALSE, 0, 0)

\* lines 203-223 of load_logs on the file
StreamFile ==
    /\ pc = "idle"
    /\ ~sl_called
    /\ sl_out' = StreamingLoad(sl_stream)
    /\ sl_called' = TRUE
    /\ UNCHANGED <<sl_stream, app_vars, reader_vars, filter_vars, settings_vars, rect_vars, chunk_vars, tail_vars>>

StreamNext == StreamFile

StreamSpec == StreamInit /\ [][StreamNext]_vars

\* the number of newlines among the first i bytes of s
NewlinesBefore(s, i) == Cardinality({j \in 1..i : s[j] = NL})
\* some line of s with more than MAX_LINE_LEN bytes ends before position p
OversizedBefore(s, p) ==
    \E i \in 1..p : /\ s[i] = NL
                    /\ \E j \in 1..i : /\ i - j > MAX_LINE_LEN
                                       /\ \A m \in j..(i - 1) : s[m] # NL

\* C30: in the streaming strategy file_offset is 0 when the first kept line is
\* line 1, and otherwise the byte position just after the newline numbered
\* file_line_start - 1, which is where the first kept line starts, also when
\* earlier lines were oversized and truncated.
C30_OffsetOfFirstKeptLine ==
    sl_called =>
        LET o == sl_out.file_offset
            n == sl_out.file_line_start
        IN  /\ n = 1 => o = 0
            /\ n > 1 => /\ o \in 1..Len(sl_stream)
                        /\ sl_stream[o] = NL
                        /\ NewlinesBefore(sl_stream, o) = n - 1
            /\ Len(sl_out.lines) > 0 =>
                   read_line_bounded(sl_stream, o).line = sl_out.lines[1]

\* "aaa\n\n\n": the first line is oversized and is not kept; the first kept
\* line is line 2, which starts at byte 4
C30_Witness ==
    /\ sl_called
    /\ sl_stream = <<97, 97, 97, 10, 10, 10>>
    /\ OversizedBefore(sl_stream, sl_out.file_offset)
    /\ sl_out.file_line_start = 2
    /\ sl_out.file_offset = 4

\* ---- the cold load of a large file (LargeLoadSpec) --------------------------
\* a path is given and the file is larger than TAIL_READ_SIZE
LargeLoadInit == Init /\ file_arg /\ Len(file) > TAIL_READ_SIZE

LargeLoadNext == \E io \in LoadIo : LoadLogs(io)

LargeLoadSpec == LargeLoadInit /\ [][LargeLoadNext]_vars

\* load_logs returned Ok and the whole trailing window was read
LargeLoaded == pc = "loaded" /\ faults = 0

\* the window after its first newline; nothing when it has no newline
AfterFirstNewline(w) ==
    IF \E i \in 1..Len(w) : w[i] = NL
    THEN LET first == CHOOSE i \in 1..Len(w) : w[i] = NL /\ \A j \in 1..(i - 1) : w[j] # NL
         IN  SubSeq(w, first + 1, Len(w))
    ELSE <<>>

\* C31: in the large-file strategy the first fragment of the trailing window
\* is always discarded: the kept lines come from the bytes after the first
\* newline of the window only, and none is kept when the window has no
\* newline at all.
C31_FirstFragmentDiscarded ==
    LargeLoaded =>
        LET rest == AfterFirstNewline(TailWindow(file))
            pieces == SplitNewline(rest)
        IN  /\ \A i \in 1..Len(all_lines) :
                   \E j \in 1..Len(pieces) : all_lines[i] = TailFragment(pieces[j]).text
            /\ Len(rest) = 0 => all_lines = <<>>

\* ---- C32 --------------------------------------------------------------------
\* the line a fragment is claimed to give: its first MAX_LINE_LEN bytes and
\* the marker when it is longer than MAX_LINE_LEN bytes, else its decoded text
ClaimedTailLine(piece) ==
    IF Len(piece) > MAX_LINE_LEN THEN SubSeq(piece, 1, MAX_LINE_LEN) \o MARKER
    ELSE FromUtf8Lossy(piece)

ClaimedTailLines(pieces) ==
    NonEmptyOnly([j \in 1..Len(pieces) |-> ClaimedTailLine(pieces[j])])

\* C32: in the large-file strategy every fragment longer than MAX_LINE_LEN
\* bytes, multi-byte and replaced characters included, gives exactly one kept
\* line made of its first MAX_LINE_LEN bytes and the marker "...", and the
\* load neither fails nor aborts.
C32_OversizedFragmentMarked ==
    /\ (file_arg /\ Len(file) > TAIL_READ_SIZE) => pc # "panic"
    /\ LargeLoaded =>
           LET w == TailWindow(file)
               pieces == SplitNewline(AfterFirstNewline(w))
           IN  (\E i \in 1..Len(w) : w[i] = NL)
                   => all_lines = LastN(ClaimedTailLines(pieces), MAX_LINES)

\* ---- C33 --------------------------------------------------------------------
\* C33: in the large-file strategy only complete fragments are kept: the kept
\* lines are the last MAX_LINES non-empty newline-terminated fragments of the
\* window after its first newline, and the trailing fragment that no newline
\* ends is not returned as a line.
C33_OnlyCompleteFragmentsKept ==
    LargeLoaded =>
        LET w == TailWindow(file)
            complete == Terminated(AfterFirstNewline(w))
        IN  (\E i \in 1..Len(w) : w[i] = NL)
                => all_lines = LastN(NonEmptyOnly([j \in 1..Len(complete) |->
                                         TailFragment(complete[j]).text]), MAX_LINES)

\* ---- C34 --------------------------------------------------------------------
\* C34: a key event, whatever has the focus, changes none of all_lines,
\* file_line_start, live_file_offset and live_partial; once the app is
\* constructed they change only in a step that runs poll_live_file.
C34_KeysLeaveBufferAlone ==
    /\ [][(\E key \in UiKeys : KeyEvent(key)) => UNCHANGED core_vars]_vars
    /\ [][(Started /\ ~(\E io \in PollIo : Tick(io) /\ live))
              => UNCHANGED core_vars]_vars

\* live mode was switched off by a key while a fragment was carried, the
\* settings panel was opened, and the fragment is still there
C34_Witness ==
    /\ pc = "top"
    /\ ~live
    /\ show_settings
    /\ live_partial = <<97>>
    /\ live_file_offset = 1


\* ---------------------------------------------------------------------------
\* poll_live_file by itself, call after call, on a file that only grows
\* ---------------------------------------------------------------------------

\* what a writer appends in one write: a whole character
ChunkChars == {<<NL>>, <<97>>, <<195, 169>>}

ChunkInit ==
    /\ AppIdle
    /\ ReaderIdle
    /\ FilterIdle
    /\ SettingsIdle
    /\ RectIdle
    /\ StreamIdle
    /\ TailIdle
    /\ k_file \in {s \in SeqsUpTo(ByteAlphabet, MaxChunkInit) : IsUtf8(s)}
    /\ k_origin \in {o \in 0..Len(k_file) : IsCharBoundary(k_file, o)}
    /\ k_core = Core(<<>>, 1, k_origin, <<>>)
    /\ k_polled = <<>>
    /\ k_faults = 0

ChunkAppend(ch) ==
    /\ Len(k_file) + Len(ch) <= MaxChunkLen
    /\ k_file' = k_file \o ch
    /\ UNCHANGED <<k_core, k_origin, k_polled, k_faults, app_vars, reader_vars,
                   filter_vars, settings_vars, rect_vars, stream_vars, tail_vars>>

\* the lines a call appended are the last ones of the buffer it left: the
\* count of lines ever appended is file_line_start + len - 1, and a call
\* appends at most MAX_LINES lines here
ChunkReturn(r, io) ==
    /\ k_core' = r.core
    /\ k_polled' = k_polled \o
           LastN(r.core.all_lines,
                 (r.core.file_line_start + Len(r.core.all_lines))
                     - (k_core.file_line_start + Len(k_core.all_lines)))
    /\ k_faults' = IF io = "seek_error" THEN k_faults + 1 ELSE k_faults

ChunkPoll(io) ==
    /\ io = "seek_error" => k_faults < MaxFaults
    /\ ChunkReturn(poll_live_file(k_core, TRUE, k_file, io), io)
    /\ UNCHANGED <<k_file, k_origin, app_vars, reader_vars,
                   filter_vars, settings_vars, rect_vars, stream_vars, tail_vars>>

ChunkNext ==
    \/ \E ch \in ChunkChars : ChunkAppend(ch)
    \/ \E io \in PollIo : ChunkPoll(io)

ChunkSpec == ChunkInit /\ [][ChunkNext]_vars

\* the bytes of the file between the offset the polls started at and the
\* offset they have reached
ChunkSegment == Slice(k_file, k_origin, Min(k_core.live_file_offset, Len(k_file)))

\* C35: for a file of valid UTF-8 that only grows and any schedule of polls
\* that started at offset o with an empty fragment, once the offset is p the
\* non-empty lines the polls appended are the non-empty newline-terminated
\* lines of file[o..p] in order, and live_partial is what follows the last
\* newline of file[o..p]: no byte is lost or handed over twice.
C35_ChunkingIndependent ==
    /\ k_core.live_file_offset <= Len(k_file)
    /\ NonEmptyOnly(k_polled) = NonEmptyOnly(Terminated(ChunkSegment))
    /\ k_core.live_partial = AfterLastNewline(ChunkSegment)


\* ---- C36 --------------------------------------------------------------------
\* the latest call met a line of exactly MAX_LINE_LEN bytes with a newline
\* after it
ExactRead ==
    /\ r_calls > 0
    /\ Len(LineAt(r_stream, r_prev)) = MAX_LINE_LEN
    /\ FindNewline(r_stream, r_prev) < Len(r_stream)

\* C36: a line of exactly MAX_LINE_LEN bytes followed by a newline is returned
\* by read_line_bounded whole (decoded with replacement, so unchanged when it
\* is valid UTF-8), and the next call returns the line after it, wherever the
\* line starts in the reader's buffer.
C36_ExactLengthLineWhole ==
    ExactRead
    => /\ r_last.some
       /\ r_last.line = FromUtf8Lossy(LineAt(r_stream, r_prev))
       /\ IsUtf8(LineAt(r_stream, r_prev)) => r_last.line = LineAt(r_stream, r_prev)
       /\ ResumesAtNextLine

\* such a line started in the middle of a buffer chunk and was returned
\* whole, and a line follows it
C36_Witness ==
    /\ ExactRead
    /\ r_prev % BUF_CAP # 0
    /\ r_last.line = <<97, 97>>
    /\ r_pos < Len(r_stream)


\* ---------------------------------------------------------------------------
\* the large-file strategy of load_logs step by step, beside a writer that
\* appends to the file
\* ---------------------------------------------------------------------------

\* lines 190-196: seek to file_size - TAIL_READ_SIZE of the file as it is when
\* read, and read at most TAIL_READ_SIZE bytes from there
TailRead(file_size, stream) ==
    LET start == Max(file_size - TAIL_READ_SIZE, 0)
    IN  Slice(stream, Min(start, Len(stream)), Min(start + TAIL_READ_SIZE, Len(stream)))

\* the reads of the tail: whole, or failing after k bytes
TailIo == {io \in LoadIo : io.kind \in {"ok", "read_error"}}

TailInit ==
    /\ AppIdle
    /\ ReaderIdle
    /\ FilterIdle
    /\ SettingsIdle
    /\ RectIdle
    /\ StreamIdle
    /\ ChunkIdle
    /\ w_file \in {s \in InitFiles : Len(s) > TAIL_READ_SIZE}
    /\ w_phase = "start"
    /\ w_size = 0
    /\ w_added = <<>>
    /\ w_out = [buf |-> <<>>, lines |-> <<>>, file_offset |-> 0, panic |-> FALSE, seen |-> 0]

\* line 185-186: fs::metadata and meta.len()
TailMetadata ==
    /\ w_phase = "start"
    /\ w_phase' = "sized"
    /\ w_size' = Len(w_file)
    /\ UNCHANGED <<w_file, w_added, w_out, app_vars, reader_vars, filter_vars,
                   settings_vars, rect_vars, stream_vars, chunk_vars>>

\* the writer appends one byte
TailAppend(b) ==
    /\ Len(w_added) < MaxTailAppend
    /\ w_phase # "start"
    /\ w_file' = Append(w_file, b)
    /\ w_added' = Append(w_added, b)
    /\ UNCHANGED <<w_phase, w_size, w_out, app_vars, reader_vars, filter_vars,
                   settings_vars, rect_vars, stream_vars, chunk_vars>>

\* lines 188-200: open, seek, read, parse and return
TailLoad(io) ==
    /\ w_phase = "sized"
    /\ w_phase' = "done"
    /\ LET window == TailRead(w_size, w_file)
           buf == IF io.kind = "read_error"
                  THEN SubSeq(window, 1, Min(io.k, Len(window)))
                  ELSE window
           kept == parse_tail_lines(buf)
       IN  w_out' = [buf |-> buf, lines |-> kept.lines, file_offset |-> w_size,
                     panic |-> kept.panic, seen |-> Len(w_file)]
    /\ UNCHANGED <<w_file, w_size, w_added, app_vars, reader_vars, filter_vars,
                   settings_vars, rect_vars, stream_vars, chunk_vars>>

TailNext ==
    \/ TailMetadata
    \/ \E b \in ByteAlphabet : TailAppend(b)
    \/ \E io \in TailIo : TailLoad(io)

TailSpec == TailInit /\ [][TailNext]_vars

\* ---- C37 --------------------------------------------------------------------
\* C37: when a writer appends between the size query and the read of the
\* large-file strategy, the bytes the load examines are exactly the bytes
\* [size - TAIL_READ_SIZE, size) of the file for the size observed, and the
\* offset returned is that size, so that the bytes from the offset on are the
\* appended ones and a poll from there reads them from their first byte.
C37_TailReadsObservedRange ==
    (w_phase = "done" /\ w_out.seen > w_size)
    => /\ w_out.buf = Slice(w_file, w_size - TAIL_READ_SIZE, w_size)
       /\ w_out.file_offset = w_size
       /\ Slice(w_file, w_out.file_offset, Len(w_file)) = w_added
       /\ PollRead(w_file, w_out.file_offset, "ok")
              = SubSeq(w_added, 1, Min(POLL_READ_CAP, Len(w_added)))


\* ---- C38 --------------------------------------------------------------------
\* C38: after every sequence of key events filter_cursor is at most
\* filter.len() and lies on a character boundary of the filter text, and no
\* insertion or deletion at the cursor has failed, also when characters of
\* more than one byte were typed.
C38_CursorOnCharBoundary ==
    /\ filter_cursor <= Len(filter)
    /\ IsCharBoundary(filter, filter_cursor)
    /\ pc # "panic"

\* ---- C39 --------------------------------------------------------------------
\* the filter text with the character ch inserted at the cursor
FilterWith(ch) ==
    SubSeq(filter, 1, filter_cursor) \o ch \o SubSeq(filter, filter_cursor + 1, Len(filter))

\* C39: while the filter has focus and the settings panel is closed, a key
\* press of a non-control character without modifiers inserts the character
\* at the cursor, advances the cursor and leaves the app running.
C39_CharKeyInserts ==
    [][\A key \in UiKeys :
          (/\ key.code = "Char" /\ ~key.ctrl /\ ~IsControl(key.ch)
           /\ focus = "Filter" /\ ~show_settings
           /\ KeyEvent(key))
          => /\ filter' = FilterWith(key.ch)
             /\ filter_cursor' > filter_cursor
             /\ running'
             /\ pc' = "top"]_vars

\* ---- C40 --------------------------------------------------------------------
\* C40: while the filter has focus, Ctrl+A moves filter_cursor to 0 and Ctrl+E
\* moves it to filter.len(), and neither changes the filter text.
C40_CtrlAEMoveCursor ==
    [][/\ (focus = "Filter" /\ ~show_settings /\ KeyEvent(Key(TRUE, "Char", <<97>>)))
          => (filter_cursor' = 0 /\ filter' = filter)
       /\ (focus = "Filter" /\ ~show_settings /\ KeyEvent(Key(TRUE, "Char", <<101>>)))
          => (filter_cursor' = Len(filter) /\ filter' = filter)]_vars

=============================================================================
